---- MODULE Spec2Model ----
(***************************************************************************)
(* Model of curlhelper's execution engine (executeRequest, performRequest) *)
(* and of its process-wide interceptor registry (InterceptorManager).      *)
(*                                                                         *)
(* A handler array is a JavaScript object with identity: the registry      *)
(* holds a reference to the current request array and to the current      *)
(* response array, clear() makes the registry point at two fresh arrays,   *)
(* and a for..of loop keeps iterating the array object it started on,     *)
(* reading its length and its slots live.  The arrays therefore live in a  *)
(* heap and the registry and the iterators hold indices into it.           *)
(*                                                                         *)
(* A call of executeRequest is a coroutine; one action of the model is one *)
(* synchronous segment of it, from one await to the next.                  *)
(***************************************************************************)
EXTENDS Naturals, Integers, Sequences, FiniteSets, TLC

\* ------------------------------------------------------------------ bounds
MaxRetry == 2          \* largest retry.count a call is configured with
MaxUse == 3            \* number of use() calls over both chains
MaxClear == 1          \* number of clear() calls

Calls == {1, 2}                          \* concurrent executeRequest calls
Statuses == {200, 503}                   \* statuses the transport answers
RetryCounts == 0 .. MaxRetry
EjectIds == -1 .. MaxUse                 \* ids handed to eject, some stale

VARIABLES
    heap,        \* every handler array ever allocated, by reference
    request,     \* interceptors.request.handlers  (a reference into heap)
    response,    \* interceptors.response.handlers (a reference into heap)
    call,        \* per call: the locals of executeRequest and its position
    nextUid,     \* identity of the next function object passed to use
    clears,      \* number of clear() calls so far
    ejected,     \* history: uids of the handlers eject has replaced
    issued,      \* history: per chain, the ids use has returned, in order
    cleared,     \* history: uids of the handlers registered before the last clear()
    headers,     \* the Headers objects: 0 is the caller's config.headers, c is call c's
    cmd,         \* the input of the pure function under study (parser, backoff)
    out          \* what that function returned for cmd

vars == <<heap, request, response, call, nextUid, clears, ejected, issued,
          cleared, headers, cmd, out>>

\* the variables of the pure functions, which the request engine never touches
parserVars == <<cmd, out>>

\* ----------------------------------------------------------------- values
Range(s) == {s[i] : i \in 1 .. Len(s)}

\* (config) => config, the pass-through eject stores
Identity == [uid |-> 0, kind |-> "noop"]

NoError == [kind |-> "none", n |-> 0]
Err(k, n) == [kind |-> k, n |-> n]
NoResponse == [attempt |-> 0, status |-> 0, trace |-> <<>>]

\* A handler is a function object: uid is its identity; a handler of kind
\* "xform" returns its input with its own mark appended, one of kind
\* "raise" throws (or returns a rejected promise).
Transform(h, v) == IF h.kind = "xform" THEN Append(v, h.uid) ELSE v

\* the configurations of the model: GET requests with every retry policy,
\* with and without a timeout and a signal
Configs ==
    [method : {"GET"}, count : RetryCounts, hasCodes : BOOLEAN,
     onRetry : {"none", "ok", "throw"}, timeout : BOOLEAN, signal : BOOLEAN]

\* the status of a response without content
NoContent == 204

NoConfig == [method |-> "GET", count |-> 0, hasCodes |-> FALSE, onRetry |-> "none",
             timeout |-> FALSE, signal |-> FALSE]

\* retry.statusCodes of the model's configurations, when set
RetryCodes == {503}

\* the default of retryableCodes in isRetryableStatus, also the default the
\* comment on RetryOptions.statusCodes states
DefaultStatusCodes == {408, 429, 500, 502, 503, 504}

IdleCall ==
    [pc |-> "idle", cfg |-> NoConfig,
     \* locals of executeRequest
     trace |-> <<>>,                        \* processedConfig, as the marks applied to it
     reqIt |-> [arr |-> 0, idx |-> 0],      \* iterator of the request loop
     respIt |-> [arr |-> 0, idx |-> 0],     \* iterator of the response loop
     awaiting |-> Identity,                 \* the handler whose result is awaited
     pending |-> <<>>,                      \* the value that handler returns
     attempt |-> 0, maxAttempts |-> 0,
     response |-> NoResponse,               \* response, then processedResponse
     lastError |-> NoError,
     \* the promise executeRequest returned
     outcome |-> "pending", result |-> NoResponse, error |-> NoError,
     \* the environment of the call
     timers |-> {},                         \* timers created, not cleared, not fired in a race
     aborted |-> FALSE,                     \* the caller's signal is aborted
     \* history of the call
     reqLog |-> <<>>, respLog |-> <<>>,     \* handler invocations: slot, handler, input
     running |-> 0,                         \* handlers started and not yet completed
     fetches |-> 0,                         \* calls of fetch
     outcomes |-> <<>>,                     \* how each attempt's race ended
     retries |-> <<>>,                      \* calls of onRetry: attempt, error
     sleeps |-> 0,                          \* backoff sleeps entered
     abortAttempt |-> 0,                    \* the attempt pending when the signal fired
     seenEjected |-> {},                    \* handlers ejected before the call began
     passedEjected |-> {},                  \* handlers ejected behind the call's position
     hdr |-> 0,                             \* the Headers object of processedConfig
     inflight |-> {},                       \* attempts whose fetch has not settled
     respRuns |-> <<>>,                     \* attempts whose response entered the response chain
     now |-> 0,                             \* performance.now(): awaits completed since the call began
     startTime |-> 0,                       \* startTime of executeRequest
     endTime |-> 0,                         \* endTime of the last performRequest that got a response
     total |-> 0,                           \* timing.total of that response
     clearedBefore |-> {},                  \* handlers cleared before the call began
     streaming |-> FALSE,                   \* the parameter streaming of executeRequest
     returned |-> {}]                       \* attempts whose performRequest returned a response

\* the caller's header set before any call, as one mark
CallerHeaders == {0}

\* what out holds before the parser has run
NotRun == [done |-> FALSE]

\* the state after construction of the interceptor registry
InitEngine ==
    /\ heap = << <<>>, <<>> >>
    /\ request = 1
    /\ response = 2
    /\ call = [c \in Calls |-> IdleCall]
    /\ nextUid = 1
    /\ clears = 0
    /\ ejected = {}
    /\ issued = [ch \in {"request", "response"} |-> <<>>]
    /\ cleared = {}
    /\ headers = [o \in {0} \cup Calls |-> CallerHeaders]

Init ==
    /\ InitEngine
    /\ cmd = <<>>
    /\ out = NotRun

\* ------------------------------------------------- the interceptor registry
\* handlers.push(handler)
Push(a, h) == Append(a, h)

\* return handlers.length - 1, evaluated after the push
UseId(a) == Len(a) - 1

\* variants of eject: one that removes the slot, one that is off by one slot
EjectSplice(a, id) ==
    IF id \in 0 .. Len(a) - 1
    THEN SubSeq(a, 1, id) \o SubSeq(a, id + 2, Len(a))
    ELSE a

EjectShifted(a, id) ==
    IF id + 1 \in 0 .. Len(a) - 1 THEN [a EXCEPT ![id + 2] = Identity] ELSE a

\* if (handlers[id]) handlers[id] = identity: a slot outside the array reads
\* undefined, every stored handler is a function and so is truthy
EjectAt(a, id) ==
    IF id \in 0 .. Len(a) - 1 THEN [a EXCEPT ![id + 1] = Identity] ELSE a

\* history bookkeeping of an eject on the request chain: the handler it
\* replaced, and the calls suspended in a handler at a greater index of the
\* same array (reqIt.idx counts the slots the iterator has already read)
Replaced(a, id) ==
    IF id \in 0 .. Len(a) - 1 /\ a[id + 1].kind # "noop" THEN {a[id + 1].uid} ELSE {}

NoteEject(r, arr, gone, id) ==
    IF r.pc = "req_await" /\ r.reqIt.arr = arr /\ r.reqIt.idx - 1 > id
    THEN [r EXCEPT !.passedEjected = @ \cup gone]
    ELSE r

UseRequest(kind) ==
    /\ nextUid <= MaxUse
    /\ heap' = [heap EXCEPT ![request] = Push(@, [uid |-> nextUid, kind |-> kind])]
    /\ issued' = [issued EXCEPT !.request = Append(@, UseId(heap'[request]))]
    /\ nextUid' = nextUid + 1
    /\ UNCHANGED <<request, response, call, clears, ejected, cleared, headers, parserVars>>

UseResponse(kind) ==
    /\ nextUid <= MaxUse
    /\ heap' = [heap EXCEPT ![response] = Push(@, [uid |-> nextUid, kind |-> kind])]
    /\ issued' = [issued EXCEPT !.response = Append(@, UseId(heap'[response]))]
    /\ nextUid' = nextUid + 1
    /\ UNCHANGED <<request, response, call, clears, ejected, cleared, headers, parserVars>>

EjectRequest(id) ==
    /\ heap' = [heap EXCEPT ![request] = EjectAt(@, id)]
    /\ ejected' = ejected \cup Replaced(heap[request], id)
    /\ call' = [c \in Calls |->
                  NoteEject(call[c], request, Replaced(heap[request], id), id)]
    /\ UNCHANGED <<request, response, nextUid, clears, issued, cleared, headers, parserVars>>

EjectResponse(id) ==
    /\ heap' = [heap EXCEPT ![response] = EjectAt(@, id)]
    /\ ejected' = ejected \cup Replaced(heap[response], id)
    /\ UNCHANGED <<request, response, call, nextUid, clears, issued, cleared, headers, parserVars>>

\* a clear() that resets the request chain and forgets the response chain
ClearRequestOnly ==
    /\ clears < MaxClear
    /\ heap' = Append(heap, <<>>)
    /\ request' = Len(heap) + 1
    /\ clears' = clears + 1
    /\ cleared' = 1 .. nextUid - 1
    /\ UNCHANGED <<response, call, nextUid, ejected, issued, headers, parserVars>>

\* this.request.handlers = []; this.response.handlers = []
Clear ==
    /\ clears < MaxClear
    /\ heap' = heap \o << <<>>, <<>> >>
    /\ request' = Len(heap) + 1
    /\ response' = Len(heap) + 2
    /\ clears' = clears + 1
    /\ cleared' = 1 .. nextUid - 1
    /\ UNCHANGED <<call, nextUid, ejected, issued, headers, parserVars>>

\* ------------------------------------------------------ executeRequest
\* Each operator below is a piece of straight-line code between two awaits;
\* it maps the locals r of one call to the locals at the next await.

Reject(r, e) == [r EXCEPT !.pc = "done", !.outcome = "rejected", !.error = e]

Resolve(r, v) == [r EXCEPT !.pc = "done", !.outcome = "resolved", !.result = v]

\* performRequest up to its await: createTimeout arms a timer when
\* config.timeout is set, then fetch is called
PerformRequest(r) ==
    [r EXCEPT !.pc = "fetch",
              !.fetches = @ + 1,
              !.inflight = @ \cup {r.attempt},
              !.timers = IF r.cfg.timeout THEN @ \cup {r.attempt} ELSE @]

\* the test of for (attempt = 1; attempt <= maxAttempts; attempt++) and what
\* follows the loop
Loop(r) ==
    IF r.attempt <= r.maxAttempts
    THEN PerformRequest(r)
    ELSE Reject(r, IF r.lastError.kind = "none" THEN Err("generic", 0)
                   ELSE r.lastError)

\* a loop bound that allows one attempt more than count + 1
StartAttemptsExtra(r) ==
    Loop([r EXCEPT !.maxAttempts = r.cfg.count + 2, !.attempt = 1,
                   !.startTime = r.now])

\* const startTime = performance.now();
\* retryConfig = processedConfig.retry || {count: 0}; maxAttempts = count + 1
StartAttempts(r) ==
    Loop([r EXCEPT !.maxAttempts = r.cfg.count + 1, !.attempt = 1,
                   !.startTime = r.now])

\* await sleep(delay)
Sleep(r) == [r EXCEPT !.pc = "sleep", !.sleeps = @ + 1]

\* retryConfig.onRetry(attempt, e), as the last statements of the catch block:
\* an exception of the callback leaves executeRequest
RetryFromCatch(r, e) ==
    IF r.cfg.onRetry = "none" THEN Sleep(r)
    ELSE LET r1 == [r EXCEPT !.retries = Append(@, [attempt |-> r.attempt, error |-> e])]
         IN IF r.cfg.onRetry = "ok" THEN Sleep(r1)
            ELSE Reject(r1, Err("onRetry", r.attempt))

\* variant of the catch block that keeps the first error it saw
CatchKeepsFirst(r, e) ==
    LET r1 == [r EXCEPT !.lastError = IF @.kind = "none" THEN e ELSE @]
    IN IF r1.attempt >= r1.maxAttempts
       THEN Reject(r1, r1.lastError)
       ELSE RetryFromCatch(r1, e)

\* a catch block that throws a timeout at once instead of retrying it
CatchTimeoutFatal(r, e) ==
    LET r1 == [r EXCEPT !.lastError = e]
    IN IF r1.attempt >= r1.maxAttempts \/ e.kind = "timeout"
       THEN Reject(r1, e) ELSE RetryFromCatch(r1, e)

\* catch (error) { lastError = error; if (attempt >= maxAttempts) throw error; ... }
Catch(r, e) ==
    LET r1 == [r EXCEPT !.lastError = e]
    IN IF r1.attempt >= r1.maxAttempts THEN Reject(r1, e) ELSE RetryFromCatch(r1, e)

\* a retry on a status that sleeps without calling onRetry
RetryFromTrySilent(r, e) == Sleep(r)

\* the same callback inside the try block (retry on a status): an exception
\* of the callback is caught by the catch block of the same attempt
RetryFromTry(r, e) ==
    IF r.cfg.onRetry = "none" THEN Sleep(r)
    ELSE LET r1 == [r EXCEPT !.retries = Append(@, [attempt |-> r.attempt, error |-> e])]
         IN IF r.cfg.onRetry = "ok" THEN Sleep(r1)
            ELSE Catch(r1, Err("onRetry", r.attempt))

\* variants of the retry test: one without the membership test, one without
\* the test that attempts remain
RetryAnyStatus(r, status) ==
    /\ r.attempt < r.maxAttempts
    /\ r.cfg.hasCodes

RetryLastAttempt(r, status) ==
    /\ r.cfg.hasCodes
    /\ status \in RetryCodes

\* a retry test that falls back on the default list when statusCodes is unset
RetryDefaultCodes(r, status) ==
    /\ r.attempt < r.maxAttempts
    /\ status \in (IF r.cfg.hasCodes THEN RetryCodes ELSE DefaultStatusCodes)

\* isRetryableStatus(response.status, retryConfig.statusCodes), behind the
\* test that statusCodes is set
ShouldRetryStatus(r, status) ==
    /\ r.attempt < r.maxAttempts
    /\ r.cfg.hasCodes
    /\ status \in RetryCodes

\* one turn of for (const interceptor of handlers), when the iterator it
\* finds a slot to read in its array a: the handler is called with input and
\* the call suspends on the result
InvokeNext(r, a, it, input) ==
    LET h == a[it.idx + 1]
    IN [r EXCEPT !.awaiting = h, !.pending = Transform(h, input), !.running = @ + 1]

Logged(it, a, input) == [idx |-> it.idx, h |-> a[it.idx + 1], input |-> input]

\* variant of the request loop that hands every handler the cloned config
RequestNextUnchained(r, H) ==
    LET a == H[r.reqIt.arr]
    IN IF r.reqIt.idx < Len(a)
       THEN [InvokeNext(r, a, r.reqIt, <<>>) EXCEPT
                !.pc = "req_await", !.reqIt.idx = @ + 1,
                !.reqLog = Append(@, Logged(r.reqIt, a, <<>>))]
       ELSE StartAttempts(r)

\* the request loop: the iterator reads the length and the slot of the
\* array it was created on; past the end the attempts start
RequestNext(r, H) ==
    LET a == H[r.reqIt.arr]
    IN IF r.reqIt.idx < Len(a)
       THEN [InvokeNext(r, a, r.reqIt, r.trace) EXCEPT
                !.pc = "req_await", !.reqIt.idx = @ + 1,
                !.reqLog = Append(@, Logged(r.reqIt, a, r.trace))]
       ELSE StartAttempts(r)

\* variant of the request loop that swallows a handler's exception
RequestAwaitedSwallow(r, H) ==
    LET r1 == [r EXCEPT !.running = @ - 1]
    IN IF r.awaiting.kind = "raise"
       THEN RequestNext(r1, H)
       ELSE RequestNext([r1 EXCEPT !.trace = r.pending], H)

\* processedConfig = await interceptor(processedConfig), once the awaited
\* promise has settled; nothing catches a rejection
RequestAwaited(r, H) ==
    LET r1 == [r EXCEPT !.running = @ - 1]
    IN IF r.awaiting.kind = "raise"
       THEN Reject(r1, Err("interceptor", r.awaiting.uid))
       ELSE RequestNext([r1 EXCEPT !.trace = r.pending], H)

\* the response loop, the same way; past the end processedResponse is returned
ResponseNext(r, H) ==
    LET a == H[r.respIt.arr]
    IN IF r.respIt.idx < Len(a)
       THEN [InvokeNext(r, a, r.respIt, r.response.trace) EXCEPT
                !.pc = "resp_await", !.respIt.idx = @ + 1,
                !.respLog = Append(@, Logged(r.respIt, a, r.response.trace))]
       ELSE Resolve(r, r.response)

\* processedResponse = await interceptor(processedResponse), inside the try
\* block: a rejection reaches the catch block of the attempt
ResponseAwaited(r, H) ==
    LET r1 == [r EXCEPT !.running = @ - 1]
    IN IF r.awaiting.kind = "raise"
       THEN Catch(r1, Err("interceptor", r.awaiting.uid))
       ELSE ResponseNext([r1 EXCEPT !.response.trace = r.pending], H)

\* the try block after performRequest returned a response
AfterResponse(r, H, resp, respArr) ==
    LET r1 == [r EXCEPT !.response = resp, !.returned = @ \cup {r.attempt}]
    IN IF ShouldRetryStatus(r1, resp.status)
       THEN RetryFromTry(r1, Err("http", resp.status))
       ELSE ResponseNext([r1 EXCEPT !.respIt = [arr |-> respArr, idx |-> 0],
                                    !.respLog = <<>>,
                                    !.respRuns = Append(@, r.attempt)], H)

\* the race of the pending attempt ends; when the timer wins it, nothing
\* stops the fetch, which goes on until it settles by itself or the signal
\* fires
Ended(r, kind, status) ==
    [r EXCEPT !.outcomes = Append(@, [kind |-> kind, status |-> status]),
              !.inflight = IF kind = "timeout" THEN @ ELSE @ \ {r.attempt}]

\* the "Parse response body" step of performRequest awaits response.text()
\* unless the call is streaming, the status is 204 or the method is HEAD
ReadsBody(r, status) ==
    ~r.streaming /\ status # NoContent /\ r.cfg.method # "HEAD"

\* performRequest after the race was won by the response: endTime is taken,
\* then the body is awaited, or the response is returned as it is
Responded(r, H, resp, respArr) ==
    IF ReadsBody(r, resp.status)
    THEN [r EXCEPT !.pc = "body", !.response = resp]
    ELSE AfterResponse(r, H, resp, respArr)

\* response.text() has resolved: with a JSON content type and a text that is
\* not JSON, JSON.parse throws inside the try block of the attempt; otherwise
\* performRequest returns the response
BodyRead(r, H, valid, respArr) ==
    IF valid THEN AfterResponse(r, H, r.response, respArr)
    ELSE Catch(r, Err("syntax", r.attempt))

\* --------------------------------------------------------------- actions
\* A request interceptor of kind "xform" also sets a header of its own on the
\* config it is given, in place.
HeaderMarks(h) == IF h.kind = "xform" THEN {h.uid} ELSE {}

\* a clone that copies the fields of config and shares its Headers object
CloneShallow(c) == 0

\* an await of the call completes: time has passed
Tick(r) == [r EXCEPT !.now = @ + 1]

\* const endTime = performance.now(), and timing.total = endTime - startTime
Timed(r) == [r EXCEPT !.endTime = r.now, !.total = r.now - r.startTime]

\* cloneConfig: { ...config, headers: new Headers(config.headers), ... }; the
\* value is the Headers object of the clone, call c's own
CloneConfig(c) == c

\* executeRequest(config, streaming) is called: cloneConfig, then the request
\* chain; a caller whose signal is already aborted passes that signal
Execute(c, cfg, streaming) ==
    /\ call[c].pc = "idle"
    /\ call[c].aborted => cfg.signal
    /\ call' = [call EXCEPT ![c] =
                  RequestNext([@ EXCEPT !.cfg = cfg,
                                        !.streaming = streaming,
                                        !.hdr = CloneConfig(c),
                                        !.reqIt = [arr |-> request, idx |-> 0],
                                        !.seenEjected = ejected,
                                        !.clearedBefore = cleared], heap)]
    /\ headers' = [headers EXCEPT ![CloneConfig(c)] = headers[0]]
    /\ UNCHANGED <<heap, request, response, nextUid, clears, ejected, issued,
                   cleared, parserVars>>

\* the promise of a request interceptor settles
RequestResume(c) ==
    /\ call[c].pc = "req_await"
    /\ call' = [call EXCEPT ![c] = RequestAwaited(Tick(@), heap)]
    /\ headers' = [headers EXCEPT ![call[c].hdr] = @ \cup HeaderMarks(call[c].awaiting)]
    /\ UNCHANGED <<heap, request, response, nextUid, clears, ejected, issued,
                   cleared, parserVars>>

\* the promise of a response interceptor settles
ResponseResume(c) ==
    /\ call[c].pc = "resp_await"
    /\ call' = [call EXCEPT ![c] = ResponseAwaited(Tick(@), heap)]
    /\ UNCHANGED <<heap, request, response, nextUid, clears, ejected, issued,
                   cleared, headers, parserVars>>

\* fetch resolves with a response of status s: the headers have arrived
TransportResponds(c, s) ==
    /\ call[c].pc = "fetch"
    /\ ~call[c].aborted
    /\ call' = [call EXCEPT ![c] =
                  Responded(Timed(Ended(Tick(@), "response", s)), heap,
                            [attempt |-> @.attempt, status |-> s, trace |-> <<>>],
                            response)]
    /\ UNCHANGED <<heap, request, response, nextUid, clears, ejected, issued,
                   cleared, headers, parserVars>>

\* response.text() resolves with the body of the response, which parses
\* (valid) or makes JSON.parse throw
BodyArrives(c, valid) ==
    /\ call[c].pc = "body"
    /\ ~call[c].aborted
    /\ call' = [call EXCEPT ![c] = BodyRead(Tick(@), heap, valid, response)]
    /\ UNCHANGED <<heap, request, response, nextUid, clears, ejected, issued,
                   cleared, headers, parserVars>>

\* response.text() rejects: the connection broke while the body was read
BodyFails(c) ==
    /\ call[c].pc = "body"
    /\ ~call[c].aborted
    /\ call' = [call EXCEPT ![c] = Catch(Tick(@), Err("read", @.attempt))]
    /\ UNCHANGED <<heap, request, response, nextUid, clears, ejected, issued,
                   cleared, headers, parserVars>>

\* fetch rejects with a network error
TransportFails(c) ==
    /\ call[c].pc = "fetch"
    /\ ~call[c].aborted
    /\ call' = [call EXCEPT ![c] =
                  Catch(Ended(Tick(@), "transport", 0), Err("transport", @.attempt))]
    /\ UNCHANGED <<heap, request, response, nextUid, clears, ejected, issued,
                   cleared, headers, parserVars>>

\* the caller's signal fires, by controller.abort() or by the timer of
\* createAbortController, before the call, during it or after it has settled:
\* the abort listeners of createTimeout clear the timers they were registered
\* with
Abort(c) ==
    /\ call[c].pc = "idle" \/ call[c].cfg.signal
    /\ ~call[c].aborted
    /\ call' = [call EXCEPT ![c].aborted = TRUE, ![c].timers = {},
                            ![c].inflight =
                                IF call[c].pc = "fetch" THEN @ \cap {call[c].attempt} ELSE {},
                            ![c].abortAttempt =
                                IF call[c].pc = "fetch" THEN call[c].attempt ELSE 0]
    /\ UNCHANGED <<heap, request, response, nextUid, clears, ejected, issued,
                   cleared, headers, parserVars>>

\* the pending attempt rejects because the signal is aborted: the race of
\* fetch and timer, or the read of the body
AbortRejects(c) ==
    /\ call[c].pc \in {"fetch", "body"}
    /\ call[c].aborted
    /\ call' = [call EXCEPT ![c] =
                  IF @.pc = "fetch"
                  THEN Catch(Ended(Tick(@), "abort", 0), Err("abort", @.attempt))
                  ELSE Catch(Tick(@), Err("abort", @.attempt))]
    /\ UNCHANGED <<heap, request, response, nextUid, clears, ejected, issued,
                   cleared, headers, parserVars>>

\* the timer of the pending attempt k fires first and rejects the race.  (A
\* timer that expires after its race has settled rejects a promise nothing
\* awaits; that expiry is not a step of the model.)
TimerFires(c, k) ==
    /\ k \in call[c].timers
    /\ call[c].pc = "fetch"
    /\ call[c].attempt = k
    /\ ~call[c].aborted
    /\ call' = [call EXCEPT ![c] =
                  Catch(Ended(Tick([@ EXCEPT !.timers = @ \ {k}]), "timeout", 0),
                        Err("timeout", k))]
    /\ UNCHANGED <<heap, request, response, nextUid, clears, ejected, issued,
                   cleared, headers, parserVars>>

\* the backoff sleep ends: attempt++ and the loop test
SleepEnds(c) ==
    /\ call[c].pc = "sleep"
    /\ call' = [call EXCEPT ![c] = Loop(Tick([@ EXCEPT !.attempt = @ + 1]))]
    /\ UNCHANGED <<heap, request, response, nextUid, clears, ejected, issued,
                   cleared, headers, parserVars>>

Registry ==
    \/ \E kind \in {"xform", "raise"} : UseRequest(kind)
    \/ \E kind \in {"xform", "raise"} : UseResponse(kind)
    \/ \E id \in EjectIds : EjectRequest(id)
    \/ \E id \in EjectIds : EjectResponse(id)
    \/ Clear

Continue(c) ==
    \/ RequestResume(c)
    \/ ResponseResume(c)
    \/ \E s \in Statuses : TransportResponds(c, s)
    \/ BodyArrives(c, TRUE)
    \/ TransportFails(c)
    \/ Abort(c)
    \/ AbortRejects(c)
    \/ \E k \in 1 .. MaxRetry + 1 : TimerFires(c, k)
    \/ SleepEnds(c)

\* One call with every retry, timeout and cancellation configuration, over
\* a registry set up before the call.  The two chains do not depend on each
\* other, so the request handlers are registered first.  The body step of
\* performRequest does not read the registry: the calls that skip it, and the
\* bodies that cannot be read, are drawn for the calls made over an empty
\* registry.
Next ==
    \/ call[1].pc = "idle" /\ heap[response] = <<>>
          /\ \E kind \in {"xform", "raise"} : UseRequest(kind)
    \/ call[1].pc = "idle" /\ \E kind \in {"xform", "raise"} : UseResponse(kind)
    \/ \E cfg \in Configs : Execute(1, cfg, FALSE)
    \/ Continue(1)
    \/ heap[request] = <<>> /\ heap[response] = <<>>
          /\ \E cfg \in Configs : Execute(1, cfg, TRUE)
    \/ heap[request] = <<>> /\ heap[response] = <<>>
          /\ \E cfg \in Configs : Execute(1, [cfg EXCEPT !.method = "HEAD"], FALSE)
    \/ heap[request] = <<>> /\ heap[response] = <<>> /\ BodyArrives(1, FALSE)
    \/ heap[request] = <<>> /\ heap[response] = <<>> /\ BodyFails(1)

Spec == Init /\ [][Next]_vars

\* Concurrent calls without retry policy, timeout or signal, over a request
\* chain that changes at any time; each call is followed until its request
\* chain has produced processedConfig and the first transport call is made.
NextConcurrent ==
    \/ UseRequest("xform")
    \/ \E id \in EjectIds : EjectRequest(id)
    \/ Clear
    \/ \E c \in Calls : (\A d \in Calls : d < c => call[d].pc # "idle") /\ Execute(c, NoConfig, FALSE)
    \/ \E c \in Calls : RequestResume(c)

SpecConcurrent == Init /\ [][NextConcurrent]_vars

\* One call without retry policy followed to its outcome, over two chains
\* that grow and are cleared at any time.
NextClear ==
    \/ UseRequest("xform")
    \/ UseResponse("xform")
    \/ Clear
    \/ Execute(1, NoConfig, FALSE)
    \/ RequestResume(1)
    \/ TransportResponds(1, 200)
    \/ BodyArrives(1, TRUE)
    \/ ResponseResume(1)

SpecClear == Init /\ [][NextClear]_vars

\* The same, with the awaited promises of the call settling: an interceptor
\* that was called returns and the transport answers.
SpecClearLive ==
    /\ SpecClear
    /\ WF_vars(RequestResume(1))
    /\ WF_vars(TransportResponds(1, 200))
    /\ WF_vars(BodyArrives(1, TRUE))
    /\ WF_vars(ResponseResume(1))

\* The registry on its own: every sequence of use, eject and clear.
SpecRegistry == Init /\ [][Registry]_vars

\* ------------------------------------------------------------ the parser
\* A string is a sequence of one-character strings.
engineVars ==
    <<heap, request, response, call, nextUid, clears, ejected, issued, cleared, headers>>

\* the characters \s matches, of those the model's strings are made of
White(ch) == ch \in {" ", "\t", "\n", "\r"}

HasPrefix(s, p) == Len(s) >= Len(p) /\ SubSeq(s, 1, Len(p)) = p

\* command.replace(/\\\n/g, ' ')
RECURSIVE JoinLines(_)
JoinLines(s) ==
    IF s = <<>> THEN <<>>
    ELSE IF Len(s) >= 2 /\ s[1] = "\\" /\ s[2] = "\n"
         THEN <<" ">> \o JoinLines(SubSeq(s, 3, Len(s)))
         ELSE <<s[1]>> \o JoinLines(Tail(s))

\* s with its leading whitespace removed
RECURSIVE TrimStart(_)
TrimStart(s) == IF s # <<>> /\ White(Head(s)) THEN TrimStart(Tail(s)) ELSE s

\* s with its trailing whitespace removed
RECURSIVE TrimEnd(_)
TrimEnd(s) ==
    IF s # <<>> /\ White(s[Len(s)]) THEN TrimEnd(SubSeq(s, 1, Len(s) - 1)) ELSE s

\* String.prototype.trim
Trim(s) == TrimEnd(TrimStart(s))

\* .replace(/\s+/g, ' ')
RECURSIVE Collapse(_)
Collapse(s) ==
    IF s = <<>> THEN <<>>
    ELSE IF White(s[1]) THEN <<" ">> \o Collapse(TrimStart(s))
         ELSE <<s[1]>> \o Collapse(Tail(s))

\* const normalized = command.replace(...).replace(...).trim()
Normalized(command) == Trim(Collapse(JoinLines(command)))

\* const withoutCurl = normalized.replace(/^curl\s+/, '')
WithoutCurl(normalized) ==
    IF HasPrefix(normalized, <<"c", "u", "r", "l">>) /\ Len(normalized) >= 5 /\ White(normalized[5])
    THEN TrimStart(SubSeq(normalized, 5, Len(normalized)))
    ELSE normalized

\* the locals of tokenize before its loop; inQuote = "" stands for null
TokenizeStart == [tokens |-> <<>>, current |-> <<>>, inQuote |-> "", escaped |-> FALSE]

\* a loop body in which any quote character closes an open quote
TokenizeCharAnyQuote(st, char) ==
    IF st.escaped THEN [st EXCEPT !.current = Append(@, char), !.escaped = FALSE]
    ELSE IF char = "\\" THEN [st EXCEPT !.escaped = TRUE]
    ELSE IF char \in {"\"", "'"}
         THEN IF st.inQuote = "" THEN [st EXCEPT !.inQuote = char]
              ELSE [st EXCEPT !.inQuote = ""]
    ELSE IF char = " " /\ st.inQuote = ""
         THEN IF st.current # <<>>
              THEN [st EXCEPT !.tokens = Append(@, st.current), !.current = <<>>]
              ELSE st
    ELSE [st EXCEPT !.current = Append(@, char)]

\* a loop body in which a backslash inside quotes is an ordinary character
TokenizeCharEscapeOutside(st, char) ==
    IF st.escaped THEN [st EXCEPT !.current = Append(@, char), !.escaped = FALSE]
    ELSE IF char = "\\" /\ st.inQuote = "" THEN [st EXCEPT !.escaped = TRUE]
    ELSE IF char \in {"\"", "'"}
         THEN IF st.inQuote = "" THEN [st EXCEPT !.inQuote = char]
              ELSE IF st.inQuote = char THEN [st EXCEPT !.inQuote = ""]
              ELSE [st EXCEPT !.current = Append(@, char)]
    ELSE IF char = " " /\ st.inQuote = ""
         THEN IF st.current # <<>>
              THEN [st EXCEPT !.tokens = Append(@, st.current), !.current = <<>>]
              ELSE st
    ELSE [st EXCEPT !.current = Append(@, char)]

\* one pass of the loop body of tokenize, for the character char
TokenizeChar(st, char) ==
    IF st.escaped THEN [st EXCEPT !.current = Append(@, char), !.escaped = FALSE]
    ELSE IF char = "\\" THEN [st EXCEPT !.escaped = TRUE]
    ELSE IF char \in {"\"", "'"}
         THEN IF st.inQuote = "" THEN [st EXCEPT !.inQuote = char]
              ELSE IF st.inQuote = char THEN [st EXCEPT !.inQuote = ""]
              ELSE [st EXCEPT !.current = Append(@, char)]
    ELSE IF char = " " /\ st.inQuote = ""
         THEN IF st.current # <<>>
              THEN [st EXCEPT !.tokens = Append(@, st.current), !.current = <<>>]
              ELSE st
    ELSE [st EXCEPT !.current = Append(@, char)]

\* for (let i = 0; i < command.length; i++)
RECURSIVE TokenizeLoop(_, _)
TokenizeLoop(st, s) ==
    IF s = <<>> THEN st ELSE TokenizeLoop(TokenizeChar(st, Head(s)), Tail(s))

\* tokenize(command): the loop, then if (current) tokens.push(current)
tokenize(command) ==
    LET st == TokenizeLoop(TokenizeStart, command)
    IN IF st.current # <<>> THEN Append(st.tokens, st.current) ELSE st.tokens

\* /^https?:\/\//.test(str) || str.startsWith('www.')
isUrl(str) ==
    HasPrefix(str, <<"h", "t", "t", "p", ":", "/", "/">>) \/ HasPrefix(str, <<"h", "t", "t", "p", "s", ":", "/", "/">>) \/ HasPrefix(str, <<"w", "w", "w", ".">>)

LowerCase == <<"a", "b", "c", "d", "e", "f", "g", "h", "i", "j", "k", "l", "m", "n", "o", "p", "q", "r", "s", "t", "u", "v", "w", "x", "y", "z">>
UpperCase == <<"A", "B", "C", "D", "E", "F", "G", "H", "I", "J", "K", "L", "M", "N", "O", "P", "Q", "R", "S", "T", "U", "V", "W", "X", "Y", "Z">>

\* String.prototype.toUpperCase, on the letters a..z
ToUpperCase(s) ==
    [i \in 1 .. Len(s) |->
        IF \E k \in 1 .. 26 : LowerCase[k] = s[i]
        THEN UpperCase[CHOOSE k \in 1 .. 26 : LowerCase[k] = s[i]]
        ELSE s[i]]

\* index of the first ch in s, 0 when there is none
IndexOf(s, ch) ==
    IF \E i \in 1 .. Len(s) : s[i] = ch
    THEN CHOOSE i \in 1 .. Len(s) : s[i] = ch /\ \A j \in 1 .. i - 1 : s[j] # ch
    ELSE 0

\* String.prototype.split(ch)
RECURSIVE Split(_, _)
Split(s, ch) ==
    LET i == IndexOf(s, ch)
    IN IF i = 0 THEN <<s>>
       ELSE <<SubSeq(s, 1, i - 1)>> \o Split(SubSeq(s, i + 1, Len(s)), ch)

\* Array.prototype.join(ch)
RECURSIVE Join(_, _)
Join(parts, ch) ==
    IF parts = <<>> THEN <<>>
    ELSE IF Len(parts) = 1 THEN parts[1]
    ELSE parts[1] \o <<ch>> \o Join(Tail(parts), ch)

\* an object without keys
NoHeaders == [k \in {} |-> <<>>]

\* headers[key] = value
SetHeader(hs, key, value) ==
    [k \in DOMAIN hs \cup {key} |-> IF k = key THEN value ELSE hs[k]]

\* const result = { url: '', method: 'GET', headers: {} }; body and auth
\* are undefined, written <<>>
EmptyResult ==
    [url |-> <<>>, method |-> <<"G", "E", "T">>, headers |-> NoHeaders, body |-> <<>>, auth |-> <<>>]

RequestFlags == {<<"-", "X">>, <<"-", "-", "r", "e", "q", "u", "e", "s", "t">>}
HeaderFlags == {<<"-", "H">>, <<"-", "-", "h", "e", "a", "d", "e", "r">>}
DataFlags == {<<"-", "d">>, <<"-", "-", "d", "a", "t", "a">>, <<"-", "-", "d", "a", "t", "a", "-", "r", "a", "w">>, <<"-", "-", "d", "a", "t", "a", "-", "b", "i", "n", "a", "r", "y">>}
UserFlags == {<<"-", "u">>, <<"-", "-", "u", "s", "e", "r">>}
UrlFlags == {<<"-", "-", "u", "r", "l">>}
UserAgentFlags == {<<"-", "A">>, <<"-", "-", "u", "s", "e", "r", "-", "a", "g", "e", "n", "t">>}
RefererFlags == {<<"-", "e">>, <<"-", "-", "r", "e", "f", "e", "r", "e", "r">>}
CookieFlags == {<<"-", "b">>, <<"-", "-", "c", "o", "o", "k", "i", "e">>}

\* the flags whose case reads nextToken
ValueFlags ==
    RequestFlags \cup HeaderFlags \cup DataFlags \cup UserFlags \cup UrlFlags
        \cup UserAgentFlags \cup RefererFlags \cup CookieFlags

\* case '-X': result.method = nextToken.toUpperCase()
RequestFlag(result, nextToken) == [result EXCEPT !.method = ToUpperCase(nextToken)]

\* case '-H': const [key, ...valueParts] = nextToken.split(':');
\* const value = valueParts.join(':').trim();
\* if (key && value) result.headers[key.trim()] = value
HeaderFlag(result, nextToken) ==
    LET parts == Split(nextToken, ":")
        key == parts[1]
        value == Trim(Join(Tail(parts), ":"))
    IN IF key # <<>> /\ value # <<>>
       THEN [result EXCEPT !.headers = SetHeader(@, Trim(key), value)]
       ELSE result

\* case '-d': result.body = nextToken;
\* if (!result.method || result.method === 'GET') result.method = 'POST'
DataFlag(result, nextToken) ==
    [result EXCEPT !.body = nextToken,
                   !.method = IF @ = <<>> \/ @ = <<"G", "E", "T">> THEN <<"P", "O", "S", "T">> ELSE @]

\* case '-u': const [username, password] = nextToken.split(':');
\* if (username && password) result.auth = { username, password }
UserFlag(result, nextToken) ==
    LET parts == Split(nextToken, ":")
        username == parts[1]
        password == IF Len(parts) >= 2 THEN parts[2] ELSE <<>>
    IN IF username # <<>> /\ password # <<>>
       THEN [result EXCEPT !.auth = <<username, password>>]
       ELSE result

\* a --url case that keeps a url already found
UrlFlagKeepsFirst(result, nextToken) ==
    IF result.url = <<>> THEN [result EXCEPT !.url = nextToken] ELSE result

\* case '--url': result.url = nextToken
UrlFlag(result, nextToken) == [result EXCEPT !.url = nextToken]

\* the case of a flag that reads nextToken
FlagWithValue(result, flag, nextToken) ==
    IF flag \in RequestFlags THEN RequestFlag(result, nextToken)
    ELSE IF flag \in HeaderFlags THEN HeaderFlag(result, nextToken)
    ELSE IF flag \in DataFlags THEN DataFlag(result, nextToken)
    ELSE IF flag \in UserFlags THEN UserFlag(result, nextToken)
    ELSE IF flag \in UrlFlags THEN UrlFlag(result, nextToken)
    ELSE IF flag \in UserAgentFlags
         THEN [result EXCEPT !.headers = SetHeader(@, <<"U", "s", "e", "r", "-", "A", "g", "e", "n", "t">>, nextToken)]
    ELSE IF flag \in RefererFlags
         THEN [result EXCEPT !.headers = SetHeader(@, <<"R", "e", "f", "e", "r", "e", "r">>, nextToken)]
    ELSE [result EXCEPT !.headers = SetHeader(@, <<"C", "o", "o", "k", "i", "e">>, nextToken)]

\* a loop in which a flag that reads nextToken does not skip it
RECURSIVE ParseLoopNoSkip(_, _, _)
ParseLoopNoSkip(tokens, i, result) ==
    IF i > Len(tokens) THEN result
    ELSE LET token == tokens[i]
         IN IF Head(token) = "-"
            THEN IF token \in ValueFlags /\ i + 1 <= Len(tokens)
                 THEN ParseLoopNoSkip(tokens, i + 1,
                                      FlagWithValue(result, token, tokens[i + 1]))
                 ELSE IF token = <<"-", "-", "c", "o", "m", "p", "r", "e", "s", "s", "e", "d">>
                      THEN ParseLoopNoSkip(tokens, i + 1,
                               [result EXCEPT !.headers =
                                   SetHeader(@, <<"A", "c", "c", "e", "p", "t", "-", "E", "n", "c", "o", "d", "i", "n", "g">>, <<"g", "z", "i", "p", ",", " ", "d", "e", "f", "l", "a", "t", "e", ",", " ", "b", "r">>)])
                      ELSE ParseLoopNoSkip(tokens, i + 1, result)
            ELSE IF result.url = <<>> /\ isUrl(token)
                 THEN ParseLoopNoSkip(tokens, i + 1, [result EXCEPT !.url = token])
                 ELSE ParseLoopNoSkip(tokens, i + 1, result)

\* for (let i = 0; i < tokens.length; i++), i counted from 1; a token is
\* never empty.  A flag that reads nextToken does i++ when nextToken exists;
\* --compressed sets a header; the boolean flags and the unknown flags
\* change nothing; a token that is no flag is the url when none is set
RECURSIVE ParseLoop(_, _, _)
ParseLoop(tokens, i, result) ==
    IF i > Len(tokens) THEN result
    ELSE LET token == tokens[i]
         IN IF Head(token) = "-"
            THEN IF token \in ValueFlags
                 THEN IF i + 1 <= Len(tokens)
                      THEN ParseLoop(tokens, i + 2,
                                     FlagWithValue(result, token, tokens[i + 1]))
                      ELSE ParseLoop(tokens, i + 1, result)
                 ELSE IF token = <<"-", "-", "c", "o", "m", "p", "r", "e", "s", "s", "e", "d">>
                      THEN ParseLoop(tokens, i + 1,
                               [result EXCEPT !.headers =
                                   SetHeader(@, <<"A", "c", "c", "e", "p", "t", "-", "E", "n", "c", "o", "d", "i", "n", "g">>, <<"g", "z", "i", "p", ",", " ", "d", "e", "f", "l", "a", "t", "e", ",", " ", "b", "r">>)])
                      ELSE ParseLoop(tokens, i + 1, result)
            ELSE IF result.url = <<>> /\ isUrl(token)
                 THEN ParseLoop(tokens, i + 1, [result EXCEPT !.url = token])
                 ELSE ParseLoop(tokens, i + 1, result)

\* parseCurlCommand(command), exported as parse
parseCurlCommand(command) ==
    ParseLoop(tokenize(WithoutCurl(Normalized(command))), 1, EmptyResult)

\* a fromCurl that refuses every url that does not look like one
FromCurlStrict(command) ==
    IF ~isUrl(parseCurlCommand(command).url)
    THEN "No URL found in curl command" ELSE "builder"

\* fromCurl(command) up to new RequestBuilder(parsed.url): the message of
\* the error it throws, or "builder" when it goes on to build the request
fromCurl(command) ==
    IF parseCurlCommand(command).url = <<>>
    THEN "No URL found in curl command" ELSE "builder"

\* ------------------------------------------------- the tokenizer on its own
MaxChars == 6          \* length of the strings given to tokenize

\* the characters tokenize tells apart, and one it does not
TokenizeChars == {"a", " ", "'", "\"", "\\"}

TokenizeInputs == UNION {[1 .. n -> TokenizeChars] : n \in 0 .. MaxChars}

InitTokenize ==
    /\ InitEngine
    /\ cmd \in TokenizeInputs
    /\ out = NotRun

\* tokenize(cmd) is called
Tokenize ==
    /\ out = NotRun
    /\ out' = [done |-> TRUE, tokens |-> tokenize(cmd)]
    /\ UNCHANGED <<engineVars, cmd>>

\* Every string of TokenizeChars up to MaxChars, tokenized.
SpecTokenize == InitTokenize /\ [][Tokenize]_vars

\* --------------------------------------------------- the parser on commands
MaxItems == 2          \* number of items after "curl" in a command

\* An item is a piece of a command, written as it is typed: text is its raw
\* text; kind says what it is; a and b are the values the item carries, read
\* off the raw text by hand (what a shell would pass on); ok says whether
\* the item is well formed (for a word: whether it looks like a URL).
Item(text, kind, ok, a, b) == [text |-> text, kind |-> kind, ok |-> ok, a |-> a, b |-> b]

Items ==
    { Item(<<"-", "X", " ", "G", "E", "T">>, "method", TRUE, <<"G", "E", "T">>, <<>>),
      Item(<<"-", "X", " ", "p", "u", "t">>, "method", TRUE, <<"P", "U", "T">>, <<>>),
      Item(<<"-", "-", "r", "e", "q", "u", "e", "s", "t", " ", "P", "U", "T">>, "method", TRUE, <<"P", "U", "T">>, <<>>),
      Item(<<"-", "d", " ", "a">>, "data", TRUE, <<"a">>, <<>>),
      Item(<<"-", "-", "d", "a", "t", "a", "-", "r", "a", "w", " ", "h", "t", "t", "p", ":", "/", "/", "d">>, "data", TRUE, <<"h", "t", "t", "p", ":", "/", "/", "d">>, <<>>),
      Item(<<"-", "u", " ", "a", ":", "b">>, "user", TRUE, <<"a">>, <<"b">>),
      Item(<<"-", "u", " ", "a", ":", "b", ":", "c">>, "user", TRUE, <<"a">>, <<"b", ":", "c">>),
      Item(<<"-", "-", "u", "s", "e", "r", " ", "a", "b">>, "user", FALSE, <<>>, <<>>),
      Item(<<"-", "H", " ", "k", ":", "v">>, "header", TRUE, <<"k">>, <<"v">>),
      Item(<<"-", "H", " ", "\"", "k", ":", " ", "v", ":", "w", "\"">>, "header", TRUE, <<"k">>, <<"v", ":", "w">>),
      Item(<<"-", "H", " ", "\"", " ", ":", "v", "\"">>, "header", FALSE, <<>>, <<>>),
      Item(<<"-", "H", " ", "\"", "k", ":", " ", "\"">>, "header", FALSE, <<>>, <<>>),
      Item(<<"-", "-", "h", "e", "a", "d", "e", "r", " ", "w", "w", "w", ".", "b">>, "header", FALSE, <<>>, <<>>),
      Item(<<"h", "t", "t", "p", ":", "/", "/", "a">>, "word", TRUE, <<"h", "t", "t", "p", ":", "/", "/", "a">>, <<>>),
      Item(<<"w", "w", "w", ".", "b">>, "word", TRUE, <<"w", "w", "w", ".", "b">>, <<>>),
      Item(<<"x">>, "word", FALSE, <<"x">>, <<>>),
      Item(<<"-", "-", "u", "r", "l", " ", "h", "t", "t", "p", "s", ":", "/", "/", "u">>, "url", TRUE, <<"h", "t", "t", "p", "s", ":", "/", "/", "u">>, <<>>),
      Item(<<"-", "-", "u", "r", "l", " ", "x">>, "url", TRUE, <<"x">>, <<>>),
      Item(<<"-", "L">>, "bool", TRUE, <<>>, <<>>),
      Item(<<"-", "X">>, "dangling", FALSE, <<>>, <<>>),
      Item(<<"'", "a">>, "open", FALSE, <<>>, <<>>),
      Item(<<"\\">>, "backslash", FALSE, <<>>, <<>>) }

\* the items of a command joined by single spaces
RECURSIVE ItemsText(_)
ItemsText(items) ==
    IF items = <<>> THEN <<>>
    ELSE IF Len(items) = 1 THEN items[1].text
    ELSE items[1].text \o <<" ">> \o ItemsText(Tail(items))

\* the command string: "curl", a space and the items, or the items alone
CommandText(c) == (IF c.curl THEN <<"c", "u", "r", "l", " ">> ELSE <<>>) \o ItemsText(c.items)

ParseInputs ==
    [curl : BOOLEAN, items : UNION {[1 .. n -> Items] : n \in 0 .. MaxItems}]

InitParse ==
    /\ InitEngine
    /\ cmd \in ParseInputs
    /\ out = NotRun

\* parse(command) and fromCurl(command) are called on the command string
Parse ==
    /\ out = NotRun
    /\ out' = [done |-> TRUE,
               tokens |-> tokenize(WithoutCurl(Normalized(CommandText(cmd)))),
               result |-> parseCurlCommand(CommandText(cmd)),
               fromCurl |-> fromCurl(CommandText(cmd))]
    /\ UNCHANGED <<engineVars, cmd>>

\* Every command of up to MaxItems items, parsed.
SpecParse == InitParse /\ [][Parse]_vars

\* ------------------------------------------- the parser on laid-out commands
\* the words commands are made of here, as typed; a\\ is the word a\ with its
\* backslash escaped
Words == {<<"-", "X">>, <<"p", "u", "t">>, <<"-", "d">>, <<"a", "\\", "\\">>, <<"-", "H">>, <<"\"", "k", ":", " ", "v", "\"">>, <<"-", "L">>, <<"h", "t", "t", "p", ":", "/", "/", "a">>}

\* what may stand in place of the single space before a word
Separators == {<<"\\", "\n">>, <<" ", " ">>, <<"\n", " ">>, <<" ", "\t">>}

\* what may stand before the command and after it
Margins == {<<>>, <<" ", "\n">>}

\* "curl" and the words, each word after a single space
RECURSIVE PlainText(_)
PlainText(words) ==
    IF words = <<>> THEN <<"c", "u", "r", "l">>
    ELSE PlainText(SubSeq(words, 1, Len(words) - 1)) \o <<" ">> \o words[Len(words)]

\* the same command with c.sep in place of the space before word c.gap, and
\* with the margins c.lead and c.trail around it
RECURSIVE LaidOut(_, _)
LaidOut(c, n) ==
    IF n = 0 THEN c.lead \o <<"c", "u", "r", "l">>
    ELSE LaidOut(c, n - 1) \o (IF n = c.gap THEN c.sep ELSE <<" ">>) \o c.words[n]
             \o (IF n = Len(c.words) THEN c.trail ELSE <<>>)

LayoutInputs ==
    {c \in [words : UNION {[1 .. n -> Words] : n \in 1 .. MaxItems},
            gap : 1 .. MaxItems, sep : Separators, lead : Margins, trail : Margins] :
        c.gap <= Len(c.words)}

InitLayout ==
    /\ InitEngine
    /\ cmd \in LayoutInputs
    /\ out = NotRun

\* parse is called on the one-line command and on its laid-out form
ParseLayouts ==
    /\ out = NotRun
    /\ out' = [done |-> TRUE,
               plain |-> parseCurlCommand(PlainText(cmd.words)),
               varied |-> parseCurlCommand(LaidOut(cmd, Len(cmd.words)))]
    /\ UNCHANGED <<engineVars, cmd>>

\* Every command of up to MaxItems words, with one of its spaces replaced
\* and whitespace around it, parsed next to its one-line form.
SpecLayout == InitLayout /\ [][ParseLayouts]_vars

\* ------------------------------------------------------- calculateBackoff
MaxAttempt == 4        \* attempt numbers given to calculateBackoff
MaxDelay == 5          \* baseDelay and maxDelay, in milliseconds
RandomSteps == 4       \* Math.random() returns k / RandomSteps, k < RandomSteps

\* Math.pow(2, e) is Infinity from this exponent on (the largest double is
\* below 2^1024)
DoubleOverflow == 1024

\* Delays are multiples of 1/Unit ms, which makes the jitter an integer
Unit == 8 * RandomSteps

Number(v) == [nan |-> FALSE, v |-> v]
NaN == [nan |-> TRUE, v |-> 0]

Min(a, b) == IF a <= b THEN a ELSE b
Max(a, b) == IF a >= b THEN a ELSE b

\* min(baseDelay * 2^e, maxDelay) in the reals, for baseDelay, maxDelay >= 0
RECURSIVE MinPow(_, _, _)
MinPow(baseDelay, e, maxDelay) ==
    IF e = 0 \/ baseDelay = 0 \/ baseDelay >= maxDelay THEN Min(baseDelay, maxDelay)
    ELSE MinPow(2 * baseDelay, e - 1, maxDelay)

\* Math.min(baseDelay * Math.pow(2, attempt - 1), maxDelay) in doubles, in
\* ms: past the overflow the power is Infinity, 0 * Infinity is NaN and
\* Math.min of NaN is NaN
ExponentialDelay(attempt, baseDelay, maxDelay) ==
    IF attempt - 1 >= DoubleOverflow
    THEN IF baseDelay = 0 THEN NaN ELSE Number(maxDelay)
    ELSE Number(MinPow(baseDelay, attempt - 1, maxDelay))

\* return Math.min(Math.max(delay, 0), maxDelay), delay in units
Clamp(delay, maxDelay) ==
    IF delay.nan THEN NaN ELSE Number(Min(Max(delay.v, 0), maxDelay * Unit))

\* calculateBackoff(attempt, strategy, baseDelay, maxDelay) when Math.random()
\* returns random / RandomSteps; a strategy that is not 'linear' (the default
\* included) is exponential.  jitter = delay * 0.25 * (Math.random() - 0.5)
\* is delay * (2 * random - RandomSteps) units
calculateBackoff(attempt, strategy, baseDelay, maxDelay, random) ==
    IF strategy = "linear" THEN Clamp(Number(baseDelay * attempt * Unit), maxDelay)
    ELSE LET delay == ExponentialDelay(attempt, baseDelay, maxDelay)
         IN IF delay.nan THEN NaN
            ELSE Clamp(Number(delay.v * Unit + delay.v * (2 * random - RandomSteps)),
                       maxDelay)

BackoffInputs ==
    [attempt : (1 .. MaxAttempt) \cup {DoubleOverflow, DoubleOverflow + 1},
     strategy : {"linear", "exponential", "undefined"},
     baseDelay : 0 .. MaxDelay, maxDelay : 0 .. MaxDelay,
     random : 0 .. RandomSteps - 1]

InitBackoff ==
    /\ InitEngine
    /\ cmd \in BackoffInputs
    /\ out = NotRun

\* calculateBackoff is called
CalculateBackoff ==
    /\ out = NotRun
    /\ out' = [done |-> TRUE,
               delay |-> calculateBackoff(cmd.attempt, cmd.strategy, cmd.baseDelay,
                                          cmd.maxDelay, cmd.random)]
    /\ UNCHANGED <<engineVars, cmd>>

\* calculateBackoff on every input up to the bounds, with each value of
\* Math.random().
SpecBackoff == InitBackoff /\ [][CalculateBackoff]_vars

\* ------------------------------------------------------------ response body
\* performRequest's choice of CurlResponse.data, checked on its own: cmd is
\* what the attempt sees (streaming flag, method, status, content-type header
\* and body text of the transport response), out the data it returns.

\* String.prototype.toLowerCase, on the letters A..Z
ToLowerCase(s) ==
    [i \in 1 .. Len(s) |->
        IF \E k \in 1 .. 26 : UpperCase[k] = s[i]
        THEN LowerCase[CHOOSE k \in 1 .. 26 : UpperCase[k] = s[i]]
        ELSE s[i]]

\* String.prototype.endsWith
EndsWith(s, suffix) ==
    Len(s) >= Len(suffix) /\ SubSeq(s, Len(s) - Len(suffix) + 1, Len(s)) = suffix

\* headers.get('content-type') of a response without that header
NoContentType == [present |-> FALSE, text |-> <<>>]

\* parseContentType(headers): null (present = FALSE) without the header or
\* with an empty one, else contentType.split(';')[0].trim().toLowerCase()
parseContentType(contentType) ==
    IF ~contentType.present \/ contentType.text = <<>> THEN NoContentType
    ELSE [present |-> TRUE,
          text |-> ToLowerCase(Trim(Split(contentType.text, ";")[1]))]

\* a shouldParseJson that compares the media type as it was sent
ShouldParseJsonExact(contentType) ==
    LET parsed == IF ~contentType.present \/ contentType.text = <<>>
                  THEN NoContentType
                  ELSE [present |-> TRUE,
                        text |-> Trim(Split(contentType.text, ";")[1])]
    IN /\ parsed.present
       /\ parsed.text = <<"a", "p", "p", "l", "i", "c", "a", "t", "i", "o", "n", "/", "j", "s", "o", "n">> \/ EndsWith(parsed.text, <<"+", "j", "s", "o", "n">>)

\* shouldParseJson(headers)
shouldParseJson(contentType) ==
    LET parsed == parseContentType(contentType)
    IN /\ parsed.present
       /\ parsed.text = <<"a", "p", "p", "l", "i", "c", "a", "t", "i", "o", "n", "/", "j", "s", "o", "n">> \/ EndsWith(parsed.text, <<"+", "j", "s", "o", "n">>)

Digits == {"0", "1", "2", "3", "4", "5", "6", "7", "8", "9"}

\* a JSON value: its type and, for numbers and strings, its characters
JsonValue(t, s) == [t |-> t, s |-> s]

\* JSON.parse(text) on the texts of the model: whitespace around one literal
\* (null, true, false, an unsigned integer, a string without escapes, {} or
\* []); anything else is a SyntaxError (ok = FALSE)
JsonParse(text) ==
    LET t == Trim(text)
        Parsed(v) == [ok |-> TRUE, value |-> v]
    IN IF t = <<"n", "u", "l", "l">> THEN Parsed(JsonValue("null", <<>>))
       ELSE IF t = <<"t", "r", "u", "e">> THEN Parsed(JsonValue("true", <<>>))
       ELSE IF t = <<"f", "a", "l", "s", "e">> THEN Parsed(JsonValue("false", <<>>))
       ELSE IF t = <<"{", "}">> THEN Parsed(JsonValue("object", <<>>))
       ELSE IF t = <<"[", "]">> THEN Parsed(JsonValue("array", <<>>))
       ELSE IF /\ t # <<>>
               /\ \A i \in 1 .. Len(t) : t[i] \in Digits
               /\ (Len(t) > 1 => t[1] # "0")
            THEN Parsed(JsonValue("number", t))
       ELSE IF /\ Len(t) >= 2 /\ t[1] = "\"" /\ t[Len(t)] = "\""
               /\ \A i \in 2 .. Len(t) - 1 : t[i] \notin {"\"", "\\", "\n", "\t", "\r"}
            THEN Parsed(JsonValue("string", SubSeq(t, 2, Len(t) - 1)))
       ELSE [ok |-> FALSE, value |-> JsonValue("none", <<>>)]

\* CurlResponse.data: the raw response, undefined, a decoded value or the
\* text; read tells whether response.text() was awaited, raise that
\* JSON.parse threw
Data(kind, read, value, text) ==
    [kind |-> kind, read |-> read, value |-> value, text |-> text]

\* the "Parse response body" step of performRequest
ResponseData(streaming, method, status, contentType, text) ==
    IF streaming THEN Data("raw", FALSE, JsonValue("none", <<>>), <<>>)
    ELSE IF status = NoContent \/ method = "HEAD"
         THEN Data("absent", FALSE, JsonValue("none", <<>>), <<>>)
    ELSE IF shouldParseJson(contentType)
         THEN IF text = <<>>
              THEN Data("absent", TRUE, JsonValue("none", <<>>), <<>>)
              ELSE IF JsonParse(text).ok
                   THEN Data("json", TRUE, JsonParse(text).value, <<>>)
                   ELSE Data("raise", TRUE, JsonValue("none", <<>>), <<>>)
    ELSE Data("text", TRUE, JsonValue("none", <<>>), text)

\* a content-type header and whether it names a JSON media type
ContentType(present, text, json) ==
    [present |-> present, text |-> text, json |-> json]

ContentTypes ==
    {ContentType(FALSE, <<>>, FALSE),
     ContentType(TRUE, <<>>, FALSE),
     ContentType(TRUE, <<"a", "p", "p", "l", "i", "c", "a", "t", "i", "o", "n", "/", "j", "s", "o", "n">>, TRUE),
     ContentType(TRUE, <<"A", "p", "p", "l", "i", "c", "a", "t", "i", "o", "n", "/", "J", "S", "O", "N", ";", " ", "c", "h", "a", "r", "s", "e", "t", "=", "u", "t", "f", "-", "8">>, TRUE),
     ContentType(TRUE, <<"a", "p", "p", "l", "i", "c", "a", "t", "i", "o", "n", "/", "j", "s", "o", "n", " ", ";", "c", "h", "a", "r", "s", "e", "t", "=", "u", "t", "f", "-", "8">>, TRUE),
     ContentType(TRUE, <<"a", "p", "p", "l", "i", "c", "a", "t", "i", "o", "n", "/", "l", "d", "+", "j", "s", "o", "n">>, TRUE),
     ContentType(TRUE, <<"a", "p", "p", "l", "i", "c", "a", "t", "i", "o", "n", "/", "v", "n", "d", ".", "a", "p", "i", "+", "J", "S", "O", "N", ";", "v", "=", "1">>, TRUE),
     ContentType(TRUE, <<"t", "e", "x", "t", "/", "p", "l", "a", "i", "n">>, FALSE),
     ContentType(TRUE, <<"t", "e", "x", "t", "/", "j", "s", "o", "n">>, FALSE),
     ContentType(TRUE, <<"a", "p", "p", "l", "i", "c", "a", "t", "i", "o", "n", "/", "j", "s", "o", "n", "-", "s", "e", "q">>, FALSE),
     ContentType(TRUE, <<"t", "e", "x", "t", "/", "p", "l", "a", "i", "n", ";", " ", "x", "=", "+", "j", "s", "o", "n">>, FALSE)}

\* a body text, whether it is JSON and the value it stands for
BodyText(text, valid, value) == [text |-> text, valid |-> valid, value |-> value]

BodyTexts ==
    {BodyText(<<>>, FALSE, JsonValue("none", <<>>)),
     BodyText(<<"{", "}">>, TRUE, JsonValue("object", <<>>)),
     BodyText(<<"1", "2">>, TRUE, JsonValue("number", <<"1", "2">>)),
     BodyText(<<" ", "n", "u", "l", "l", "\n">>, TRUE, JsonValue("null", <<>>)),
     BodyText(<<"\"", "a", " ", "b", "\"">>, TRUE, JsonValue("string", <<"a", " ", "b">>)),
     BodyText(<<"o", "k">>, FALSE, JsonValue("none", <<>>)),
     BodyText(<<" ">>, FALSE, JsonValue("none", <<>>))}

BodyInputs ==
    [streaming : BOOLEAN, method : {"GET", "HEAD", "POST"},
     status : {200, NoContent, 503}, type : ContentTypes, body : BodyTexts]

InitBody ==
    /\ InitEngine
    /\ cmd \in BodyInputs
    /\ out = NotRun

\* what out holds while performRequest is suspended in await response.text()
TextPending == [done |-> FALSE, pending |-> TRUE]

\* performRequest reaches the body step with the response of the transport:
\* it assigns data at once when the call is streaming, the status is 204 or
\* the method is HEAD; otherwise it calls response.text() and suspends
BeginBody ==
    /\ out = NotRun
    /\ out' = IF ~cmd.streaming /\ cmd.status # NoContent /\ cmd.method # "HEAD"
              THEN TextPending
              ELSE [done |-> TRUE,
                    data |-> ResponseData(cmd.streaming, cmd.method, cmd.status,
                                          [present |-> cmd.type.present,
                                           text |-> cmd.type.text],
                                          <<>>)]
    /\ UNCHANGED <<engineVars, cmd>>

\* response.text() resolves with the body: JSON.parse where the content type
\* asks for it, and data is assigned
TextArrives ==
    /\ out = TextPending
    /\ out' = [done |-> TRUE,
               data |-> ResponseData(cmd.streaming, cmd.method, cmd.status,
                                     [present |-> cmd.type.present,
                                      text |-> cmd.type.text],
                                     cmd.body.text)]
    /\ UNCHANGED <<engineVars, cmd>>

\* response.text() rejects: the body stream broke or was aborted, and
\* performRequest throws
TextFails ==
    /\ out = TextPending
    /\ out' = [done |-> TRUE,
               data |-> Data("reject", TRUE, JsonValue("none", <<>>), <<>>)]
    /\ UNCHANGED <<engineVars, cmd>>

\* the body step of performRequest on every combination of the inputs above
SpecBody == InitBody /\ [][BeginBody \/ TextArrives \/ TextFails]_vars

\* ------------------------------------------------------- the body in fromCurl
\* String.prototype.includes
Includes(s, part) ==
    \E i \in 1 .. Len(s) - Len(part) + 1 : SubSeq(s, i, i + Len(part) - 1) = part

\* the character a percent escape of the model stands for, <<>> for any
\* other two characters after '%'
PercentDecoded(hex) ==
    IF hex = <<"2", "0">> THEN <<" ">>
    ELSE IF hex = <<"2", "5">> THEN <<"%">>
    ELSE IF hex = <<"2", "6">> THEN <<"&">>
    ELSE IF hex = <<"3", "D">> THEN <<"=">>
    ELSE <<>>

\* decodeURIComponent(s): ok = FALSE is the URIError of a '%' that does not
\* start an escape
RECURSIVE DecodeURIComponent(_)
DecodeURIComponent(s) ==
    IF s = <<>> THEN [ok |-> TRUE, text |-> <<>>]
    ELSE IF s[1] = "%"
         THEN IF Len(s) < 3 \/ PercentDecoded(SubSeq(s, 2, 3)) = <<>>
              THEN [ok |-> FALSE, text |-> <<>>]
              ELSE LET rest == DecodeURIComponent(SubSeq(s, 4, Len(s)))
                   IN [ok |-> rest.ok,
                       text |-> PercentDecoded(SubSeq(s, 2, 3)) \o rest.text]
    ELSE LET rest == DecodeURIComponent(Tail(s))
         IN [ok |-> rest.ok, text |-> <<s[1]>> \o rest.text]

\* parsed.body.split('&').forEach(pair => ...): [key, value] are the first
\* two parts of pair.split('='); a pair with a key sets
\* formData[decodeURIComponent(key)] = decodeURIComponent(value || '')
RECURSIVE FormData(_, _)
FormData(pairs, formData) ==
    IF pairs = <<>> THEN [ok |-> TRUE, data |-> formData]
    ELSE LET parts == Split(Head(pairs), "=")
             key == DecodeURIComponent(parts[1])
             value == DecodeURIComponent(IF Len(parts) >= 2 THEN parts[2] ELSE <<>>)
         IN IF parts[1] = <<>> THEN FormData(Tail(pairs), formData)
            ELSE IF ~key.ok \/ ~value.ok THEN [ok |-> FALSE, data |-> NoHeaders]
            ELSE FormData(Tail(pairs), SetHeader(formData, key.text, value.text))

\* config.body of the builder fromCurl returns: nothing, the value given to
\* builder.json, the pairs given to builder.form, or a text; "raise" is
\* an error thrown by fromCurl
Body(kind, value, form, text) ==
    [kind |-> kind, value |-> value, form |-> form, text |-> text]

NoBody == Body("none", JsonValue("none", <<>>), NoHeaders, <<>>)

\* the "Set body" step of fromCurl
FromCurlBody(parsed) ==
    IF parsed.body = <<>> THEN NoBody
    ELSE IF JsonParse(parsed.body).ok
         THEN Body("json", JsonParse(parsed.body).value, NoHeaders, <<>>)
    ELSE IF /\ <<"C", "o", "n", "t", "e", "n", "t", "-", "T", "y", "p", "e">> \in DOMAIN parsed.headers
            /\ Includes(parsed.headers[<<"C", "o", "n", "t", "e", "n", "t", "-", "T", "y", "p", "e">>],
                        <<"a", "p", "p", "l", "i", "c", "a", "t", "i", "o", "n", "/", "x", "-", "w", "w", "w", "-", "f", "o", "r", "m", "-", "u", "r", "l", "e", "n", "c", "o", "d", "e", "d">>)
         THEN LET form == FormData(Split(parsed.body, "&"), NoHeaders)
              IN IF form.ok THEN Body("form", JsonValue("none", <<>>), form.data, <<>>)
                 ELSE Body("raise", JsonValue("none", <<>>), NoHeaders, <<>>)
    ELSE NoBody

\* the headers of a parse result, and whether they declare a
\* form-url-encoded body
ParsedHeaders(hs, form) == [headers |-> hs, form |-> form]

FormHeaders ==
    {ParsedHeaders(NoHeaders, FALSE),
     ParsedHeaders(SetHeader(NoHeaders, <<"C", "o", "n", "t", "e", "n", "t", "-", "T", "y", "p", "e">>, <<"a", "p", "p", "l", "i", "c", "a", "t", "i", "o", "n", "/", "x", "-", "w", "w", "w", "-", "f", "o", "r", "m", "-", "u", "r", "l", "e", "n", "c", "o", "d", "e", "d">>), TRUE),
     ParsedHeaders(SetHeader(SetHeader(NoHeaders, <<"A", "c", "c", "e", "p", "t">>, <<"*", "/", "*">>), <<"C", "o", "n", "t", "e", "n", "t", "-", "T", "y", "p", "e">>,
                             <<"a", "p", "p", "l", "i", "c", "a", "t", "i", "o", "n", "/", "x", "-", "w", "w", "w", "-", "f", "o", "r", "m", "-", "u", "r", "l", "e", "n", "c", "o", "d", "e", "d", ";", " ", "c", "h", "a", "r", "s", "e", "t", "=", "u", "t", "f", "-", "8">>), TRUE),
     ParsedHeaders(SetHeader(NoHeaders, <<"c", "o", "n", "t", "e", "n", "t", "-", "t", "y", "p", "e">>, <<"a", "p", "p", "l", "i", "c", "a", "t", "i", "o", "n", "/", "x", "-", "w", "w", "w", "-", "f", "o", "r", "m", "-", "u", "r", "l", "e", "n", "c", "o", "d", "e", "d">>), TRUE),
     ParsedHeaders(SetHeader(NoHeaders, <<"C", "o", "n", "t", "e", "n", "t", "-", "T", "y", "p", "e">>, <<"t", "e", "x", "t", "/", "p", "l", "a", "i", "n">>), FALSE),
     ParsedHeaders(SetHeader(NoHeaders, <<"A", "c", "c", "e", "p", "t">>, <<"a", "p", "p", "l", "i", "c", "a", "t", "i", "o", "n", "/", "x", "-", "w", "w", "w", "-", "f", "o", "r", "m", "-", "u", "r", "l", "e", "n", "c", "o", "d", "e", "d">>), FALSE)}

\* the body of a parse result (<<>> without one): json is the value of a
\* body that is JSON (type "none" otherwise), form the pairs of the body read
\* as a form, bad whether one of its percent escapes is malformed
ParsedBody(body, json, form, bad) ==
    [body |-> body, json |-> json, form |-> form, bad |-> bad]

ParsedBodies ==
    {ParsedBody(<<>>, JsonValue("none", <<>>), NoHeaders, FALSE),
     ParsedBody(<<"{", "}">>, JsonValue("object", <<>>), NoHeaders, FALSE),
     ParsedBody(<<"1", "2">>, JsonValue("number", <<"1", "2">>), NoHeaders, FALSE),
     ParsedBody(<<"\"", "a", " ", "b", "\"">>, JsonValue("string", <<"a", " ", "b">>), NoHeaders, FALSE),
     ParsedBody(<<"h", "e", "l", "l", "o">>, JsonValue("none", <<>>),
                SetHeader(NoHeaders, <<"h", "e", "l", "l", "o">>, <<>>), FALSE),
     ParsedBody(<<"a", " ", "b">>, JsonValue("none", <<>>),
                SetHeader(NoHeaders, <<"a", " ", "b">>, <<>>), FALSE),
     ParsedBody(<<"a", "=", "b", "&", "c", "=", "d", "%", "2", "0", "e">>, JsonValue("none", <<>>),
                SetHeader(SetHeader(NoHeaders, <<"a">>, <<"b">>), <<"c">>, <<"d", " ", "e">>), FALSE),
     ParsedBody(<<"k", "%", "3", "D", "=", "%", "2", "6", "&", "=", "x">>, JsonValue("none", <<>>),
                SetHeader(NoHeaders, <<"k", "=">>, <<"&">>), FALSE),
     ParsedBody(<<"a", "=", "%">>, JsonValue("none", <<>>), NoHeaders, TRUE)}

\* the results of parseCurlCommand that fromCurl is followed on
FromCurlInputs ==
    [url : {<<>>, <<"h", "t", "t", "p", ":", "/", "/", "a">>, <<"x">>}, headers : FormHeaders, body : ParsedBodies]

InitFromCurl ==
    /\ InitEngine
    /\ cmd \in FromCurlInputs
    /\ out = NotRun

\* fromCurl after const parsed = parseCurlCommand(command): the test of
\* parsed.url, then the body
FromCurl ==
    LET parsed == [EmptyResult EXCEPT !.url = cmd.url,
                                      !.headers = cmd.headers.headers,
                                      !.body = cmd.body.body]
    IN /\ out = NotRun
       /\ out' = [done |-> TRUE,
                  fromCurl |-> IF parsed.url = <<>>
                               THEN "No URL found in curl command" ELSE "builder",
                  body |-> IF parsed.url = <<>> THEN NoBody ELSE FromCurlBody(parsed)]
       /\ UNCHANGED <<engineVars, cmd>>

\* fromCurl on parse results with and without a url, a content-type header
\* and a body.
SpecFromCurl == InitFromCurl /\ [][FromCurl]_vars

\* ---------------------------------------------- the parser on quoted values
MaxInner == 3          \* length of the text varied inside a quoted value

\* what may stand inside a quoted value: a letter and the whitespace
\* characters a command can hold
InnerChars == {"c", " ", "\t", "\n"}

\* the value of a flag: a, the varied text, b
QuotedValue(inner) == <<"a">> \o inner \o <<"b">>

QuotedInputs ==
    [flag : {"data", "header"}, quote : {"'", "\""},
     inner : UNION {[1 .. n -> InnerChars] : n \in 0 .. MaxInner}]

\* curl -d "a...b" http://x, or curl -H "k:a...b" http://x, with the quote
\* character of the command
QuotedText(c) ==
    <<"c", "u", "r", "l", " ">> \o (IF c.flag = "data" THEN <<"-", "d", " ">> ELSE <<"-", "H", " ">>)
        \o <<c.quote>> \o (IF c.flag = "data" THEN <<>> ELSE <<"k", ":">>)
        \o QuotedValue(c.inner) \o <<c.quote>> \o <<" ", "h", "t", "t", "p", ":", "/", "/", "x">>

InitQuoted ==
    /\ InitEngine
    /\ cmd \in QuotedInputs
    /\ out = NotRun

\* parse(command) is called on the command string
ParseQuoted ==
    /\ out = NotRun
    /\ out' = [done |-> TRUE, result |-> parseCurlCommand(QuotedText(cmd))]
    /\ UNCHANGED <<engineVars, cmd>>

\* Every command with one quoted value of up to MaxInner varied characters,
\* parsed.
SpecQuoted == InitQuoted /\ [][ParseQuoted]_vars

\* =================================================================== claims
FailureKinds == {"transport", "timeout", "abort"}

\* the attempts of r made so far all ended in a transport-level failure
AllFailed(r) == \A i \in 1 .. Len(r.outcomes) : r.outcomes[i].kind \in FailureKinds

\* performRequest of attempt i returned the response the transport answered
Returned(r, i) == r.outcomes[i].kind = "response" /\ i \in r.returned

\* attempt i got a response and its body is being read
Reading(r, i) == r.outcomes[i].kind = "response" /\ r.pc = "body" /\ r.attempt = i

\* attempt i got a response whose body could not be read or parsed
BodyFailed(r, i) ==
    r.outcomes[i].kind = "response" /\ ~Returned(r, i) /\ ~Reading(r, i)

\* the first n attempts of r all ended in a response of a retryable status
AllRetryable(r, n) ==
    \A i \in 1 .. n : Returned(r, i) /\ r.outcomes[i].status \in RetryCodes

\* the error the i-th attempt of r raised
ErrorOf(r, i) == Err(r.outcomes[i].kind, i)

NoneRaises(a) == \A i \in 1 .. Len(a) : a[i].kind # "raise"

\* the value a chain of handlers a makes of the value v
RECURSIVE Through(_, _)
Through(a, v) == IF a = <<>> THEN v ELSE Through(Tail(a), Transform(Head(a), v))

\* C1 (retry exhaustion): when the transport was called and every attempt
\* failed, a settled call made exactly count + 1 attempts and is rejected
\* with the error of attempt count + 1 itself (the callback onRetry not
\* raising).
RetryExhaustion ==
    LET r == call[1]
    IN (r.pc = "done" /\ r.fetches >= 1 /\ AllFailed(r) /\ r.cfg.onRetry # "throw")
       => /\ r.fetches = r.cfg.count + 1
          /\ Len(r.outcomes) = r.cfg.count + 1
          /\ r.outcome = "rejected"
          /\ r.error = ErrorOf(r, r.cfg.count + 1)

RetryExhaustionWitness ==
    LET r == call[1]
    IN /\ r.pc = "done" /\ r.cfg.count = 2 /\ r.fetches = 3 /\ AllFailed(r)
       /\ r.outcomes[1].kind = "transport" /\ r.outcomes[2].kind = "timeout"
       /\ r.outcome = "rejected" /\ r.error = Err("transport", 3)

\* C2 (retryable status convergence): with statusCodes set, once the
\* transport has answered a retryable status on attempts 1..k and a status
\* outside the list on attempt k + 1, no further attempt is made and the call
\* resolves with the response of attempt k + 1 (no callback raising, and the
\* body of each response arriving as its content type announces).
StatusConvergence ==
    LET r == call[1]
        n == Len(r.outcomes)
    IN (/\ n >= 1 /\ r.cfg.hasCodes /\ r.cfg.onRetry # "throw"
        /\ AllRetryable(r, n - 1)
        /\ (Returned(r, n) \/ Reading(r, n)) /\ r.outcomes[n].status \notin RetryCodes
        /\ NoneRaises(heap[response]))
       => /\ r.fetches = n
          /\ r.pc \in {"body", "resp_await", "done"}
          /\ r.pc = "done" =>
                /\ r.outcome = "resolved"
                /\ r.result.attempt = n
                /\ r.result.status = r.outcomes[n].status

StatusConvergenceWitness ==
    LET r == call[1]
    IN /\ r.pc = "done" /\ r.cfg.hasCodes /\ r.cfg.count >= 2
       /\ Len(r.outcomes) = 3 /\ AllRetryable(r, 2)
       /\ r.outcomes[3] = [kind |-> "response", status |-> 200]
       /\ r.outcome = "resolved" /\ r.result.attempt = 3 /\ r.result.status = 200
       /\ r.fetches = 3

\* C3 (retryable status exhaustion): when all count + 1 attempts answered a
\* retryable status, the call is not rejected: it resolves with the response
\* of the last attempt as the response chain returns it, and no error of a
\* retryable status is ever thrown (no callback raising, and the body of
\* each response arriving as its content type announces).
StatusExhaustion ==
    LET r == call[1]
        n == r.cfg.count + 1
    IN (/\ Len(r.outcomes) = n /\ r.cfg.hasCodes /\ r.cfg.onRetry # "throw"
        /\ AllRetryable(r, n)
        /\ NoneRaises(heap[response]))
       => /\ r.fetches = n
          /\ r.outcome # "rejected"
          /\ r.lastError.kind # "http"
          /\ r.pc \in {"resp_await", "done"}
          /\ r.pc = "done" =>
                /\ r.outcome = "resolved"
                /\ r.result.attempt = n
                /\ r.result.status = r.outcomes[n].status
                /\ r.result.trace = Through(heap[response], <<>>)

StatusExhaustionWitness ==
    LET r == call[1]
    IN /\ r.pc = "done" /\ r.cfg.hasCodes /\ r.cfg.count = 2
       /\ Len(r.outcomes) = 3 /\ AllRetryable(r, 3)
       /\ r.outcome = "resolved" /\ r.result.attempt = 3 /\ r.result.status = 503
       /\ Len(r.result.trace) >= 1

\* C4 (cancellation precedence): when the signal fired while attempt k was
\* pending, the call rejects with the cancellation error of attempt k, onRetry
\* is not invoked for attempt k, no backoff sleep follows and no further
\* transport attempt is made.
CancellationPrecedence ==
    LET r == call[1]
        k == r.abortAttempt
    IN k > 0
       => /\ r.fetches = k
          /\ r.sleeps = k - 1
          /\ \A i \in 1 .. Len(r.retries) : r.retries[i].attempt # k
          /\ r.pc \in {"fetch", "done"}
          /\ r.pc = "done" => (r.outcome = "rejected" /\ r.error = Err("abort", k))

\* C5 (response interceptor fatal): once a response interceptor has raised,
\* the call is rejected with that error, with no attempt after the one that
\* produced the response.
ResponseInterceptorFatal ==
    LET r == call[1]
    IN r.lastError.kind = "interceptor"
       => /\ r.pc = "done"
          /\ r.outcome = "rejected"
          /\ r.error = r.lastError
          /\ r.fetches = r.response.attempt

\* C6 (request interceptor aborts the call): a request interceptor that
\* raised is the last one that was run, the transport was never called, no
\* retry was prepared, and the call is rejected with the error it raised.
RequestInterceptorAborts ==
    LET r == call[1]
        n == Len(r.reqLog)
    IN \A i \in 1 .. n :
          (r.reqLog[i].h.kind = "raise" /\ (i < n \/ r.pc # "req_await"))
          => /\ i = n
             /\ r.pc = "done"
             /\ r.outcome = "rejected"
             /\ r.error = Err("interceptor", r.reqLog[i].h.uid)
             /\ r.fetches = 0
             /\ r.outcomes = <<>>
             /\ r.retries = <<>>
             /\ r.sleeps = 0

RequestInterceptorAbortsWitness ==
    LET r == call[1]
    IN /\ r.pc = "done" /\ r.cfg.count >= 1
       /\ Len(r.reqLog) = 1 /\ r.reqLog[1].h.kind = "raise"
       /\ Len(heap[request]) >= 2
       /\ r.outcome = "rejected" /\ r.error.kind = "interceptor"
       /\ r.fetches = 0

\* a log of handler invocations follows the slots of the array a, each input
\* being what the handler before returned
Chained(log, a) ==
    \A i \in 1 .. Len(log) :
       /\ log[i].idx = i - 1
       /\ i <= Len(a) /\ log[i].h = a[i]
       /\ log[i].input = IF i = 1 THEN <<>>
                         ELSE Transform(log[i - 1].h, log[i - 1].input)

\* what the last logged handler returned
Yield(log) ==
    IF log = <<>> THEN <<>> ELSE Transform(log[Len(log)].h, log[Len(log)].input)

\* C7 (interceptor ordering): the handlers of a chain are invoked at slots
\* 0, 1, 2, ... of the chain, at most one handler of a call is running at a
\* time, handler i + 1 receives what handler i returned, and a chain that ran
\* to its end invoked every slot and yields what its last handler returned.
InterceptorOrdering ==
    LET r == call[1]
    IN /\ r.running <= 1
       /\ Chained(r.reqLog, heap[request])
       /\ Chained(r.respLog, heap[response])
       /\ r.fetches >= 1 =>
             (Len(r.reqLog) = Len(heap[request]) /\ r.trace = Yield(r.reqLog))
       /\ r.outcome = "resolved" =>
             (Len(r.respLog) = Len(heap[response]) /\ r.result.trace = Yield(r.respLog))

InterceptorOrderingWitness ==
    LET r == call[1]
    IN /\ r.outcome = "resolved"
       /\ Len(r.reqLog) = 2 /\ Len(r.trace) = 2
       /\ Len(r.respLog) >= 1 /\ Len(r.result.trace) >= 1

Increasing(t) == \A i, j \in 1 .. Len(t) : i < j => t[i] < t[j]

\* C8 (eject under concurrency): a handler ejected while a call is suspended
\* at a greater index stays in that call's result, every handler at a slot
\* the call has passed and that is not ejected has been applied, in slot
\* order, and a call that began after the eject never applies the handler.
EjectConcurrency ==
    \A c \in Calls :
       LET r == call[c]
           a == heap[r.reqIt.arr]
       IN r.pc # "idle"
          => /\ r.passedEjected \subseteq Range(r.trace)
             /\ r.seenEjected \cap Range(r.trace) = {}
             /\ Increasing(r.trace)
             /\ \A i \in 1 .. r.reqIt.idx :
                   (i <= Len(a) /\ a[i].kind = "xform"
                       /\ (i < r.reqIt.idx \/ r.pc # "req_await"))
                   => a[i].uid \in Range(r.trace)

EjectConcurrencyWitness ==
    \E c, d \in Calls :
       /\ call[c].pc = "fetch" /\ call[c].passedEjected # {}
       /\ Len(call[c].trace) >= 3
       /\ call[d].pc = "fetch" /\ call[d].seenEjected = call[c].passedEjected
       /\ Len(call[d].trace) >= 2

\* C9 (ids monotonic): on each chain, every id use returns is strictly
\* greater than every id an earlier use on that chain returned.
IdsMonotonic ==
    \A ch \in {"request", "response"} :
       \A i, j \in 1 .. Len(issued[ch]) : i < j => issued[ch][i] < issued[ch][j]

\* what a step of eject(id) on the array chain leaves alone
EjectFrame(id, chain, other) ==
    /\ request' = request /\ response' = response
    /\ heap'[other] = heap[other]
    /\ Len(heap'[chain]) = Len(heap[chain])
    /\ \A i \in 0 .. Len(heap[chain]) - 1 :
          heap'[chain][i + 1] = IF i = id THEN Identity ELSE heap[chain][i + 1]
    /\ id \notin 0 .. Len(heap[chain]) - 1 => heap' = heap

\* C10 (eject keeps indices stable): eject(id) on a chain leaves the length
\* of the chain, every slot but id, the other chain and both array
\* references unchanged; slot id holds the pass-through afterwards when it
\* held a handler, and nothing changes when id is outside the chain.
EjectStable ==
    [][\A id \in EjectIds :
          /\ EjectRequest(id) => EjectFrame(id, request, response)
          /\ EjectResponse(id) => EjectFrame(id, response, request)]_vars

EjectStableWitness ==
    /\ \E i, j \in 1 .. Len(heap[request]) :
          heap[request][i] = Identity /\ heap[request][j].kind # "noop"
    /\ \E j \in 1 .. Len(heap[response]) : heap[response][j].kind # "noop"


\* C11: a call that starts after clear() applies none of the handlers that
\* were registered before that clear(), on the request chain or on the
\* response chain.
ClearResets ==
    \A c \in Calls :
        /\ Range(call[c].trace) \cap call[c].clearedBefore = {}
        /\ Range(call[c].response.trace) \cap call[c].clearedBefore = {}
        /\ Range(call[c].result.trace) \cap call[c].clearedBefore = {}

\* both chains held a handler when clear() ran, and a call begun afterwards
\* resolved with the mark of a handler registered after it
ClearResetsWitness ==
    /\ call[1].pc = "done"
    /\ Cardinality(call[1].clearedBefore) >= 2
    /\ request # 1 /\ heap[1] # <<>> /\ heap[2] # <<>>
    /\ call[1].result.trace # <<>>

\* C12: the request interceptors of a call mutate the headers of the call's
\* own clone: the caller's headers keep their value through every call, and
\* the headers a call sees are the caller's plus the call's own mutations,
\* never those of another call in flight.
HeaderIsolation ==
    /\ headers[0] = CallerHeaders
    /\ \A c \in Calls :
          call[c].pc # "idle" =>
              headers[call[c].hdr] = CallerHeaders \cup Range(call[c].trace)

\* two calls started from the same request are both inside their request
\* chains, and the first has had a header set by an interceptor
HeaderIsolationWitness ==
    /\ call[1].pc = "req_await" /\ call[2].pc = "req_await"
    /\ call[1].trace # <<>>
    /\ headers[1] # headers[2]

\* C13: a call makes at most maxAttempts = retry.count + 1 transport
\* attempts; with count = 0 (also the value when no retry policy is set) a
\* call whose request chain completed makes exactly one; and a call settles
\* once: it ends with a response or with an error, never both, and a settled
\* call stays as it settled.
AttemptBound ==
    /\ [](\A c \in Calls :
            /\ call[c].fetches <= call[c].cfg.count + 1
            /\ (call[c].pc \notin {"idle", "req_await"} /\ call[c].maxAttempts > 0)
                  => call[c].fetches >= 1
            /\ (call[c].pc = "done" /\ call[c].cfg.count = 0 /\ call[c].maxAttempts > 0)
                  => call[c].fetches = 1
            /\ call[c].pc = "done" <=> call[c].outcome # "pending"
            /\ call[c].outcome = "resolved"
                  => call[c].result # NoResponse /\ call[c].error = NoError
            /\ call[c].outcome = "rejected"
                  => call[c].result = NoResponse /\ call[c].error # NoError
            /\ call[c].outcome = "pending"
                  => call[c].result = NoResponse /\ call[c].error = NoError)
    /\ [][\A c \in Calls :
            call[c].outcome # "pending" =>
                /\ call'[c].outcome = call[c].outcome
                /\ call'[c].result = call[c].result
                /\ call'[c].error = call[c].error
                /\ call'[c].fetches = call[c].fetches]_vars

\* a call with retry.count = MaxRetry used every attempt it had and then
\* settled with an error
AttemptBoundWitness ==
    /\ call[1].pc = "done" /\ call[1].outcome = "rejected"
    /\ call[1].cfg.count = MaxRetry
    /\ call[1].fetches = MaxRetry + 1

\* The reading of a string without backslashes that C16 describes: a quote
\* character opens a region that runs to the next quote character of the same
\* kind (or to the end) and stands for the text between them; a space outside
\* such a region is a gap; any other character stands for itself.
RECURSIVE QuotedPieces(_)
QuotedPieces(s) ==
    IF s = <<>> THEN <<>>
    ELSE IF s[1] \in {"\"", "'"}
         THEN LET rest == Tail(s)
                  k == IndexOf(rest, s[1])
              IN IF k = 0 THEN <<[gap |-> FALSE, lit |-> rest]>>
                 ELSE <<[gap |-> FALSE, lit |-> SubSeq(rest, 1, k - 1)]>>
                          \o QuotedPieces(SubSeq(rest, k + 1, Len(rest)))
    ELSE IF s[1] = " " THEN <<[gap |-> TRUE, lit |-> <<>>]>> \o QuotedPieces(Tail(s))
    ELSE <<[gap |-> FALSE, lit |-> <<s[1]>>]>> \o QuotedPieces(Tail(s))

\* the pieces between two gaps joined into one word, empty words left out
RECURSIVE WordsOf(_, _)
WordsOf(pieces, word) ==
    IF pieces = <<>> THEN (IF word # <<>> THEN <<word>> ELSE <<>>)
    ELSE IF Head(pieces).gap
         THEN (IF word # <<>> THEN <<word>> ELSE <<>>) \o WordsOf(Tail(pieces), <<>>)
         ELSE WordsOf(Tail(pieces), word \o Head(pieces).lit)

\* C16: tokens end only at spaces outside quotes; inside a quoted region
\* spaces stay and a quote of the other kind is kept, the delimiting quotes
\* are removed; no token is empty; -H "Content-Type: application/json" is
\* two tokens and a single-quoted JSON body with double quotes is one.
Quoting ==
    out # NotRun =>
        /\ \A i \in 1 .. Len(out.tokens) : out.tokens[i] # <<>>
        /\ "\\" \notin Range(cmd) => out.tokens = WordsOf(QuotedPieces(cmd), <<>>)
        /\ tokenize(<<"-", "H", " ", "\"", "C", "o", "n", "t", "e", "n", "t", "-", "T", "y", "p", "e", ":", " ", "a", "p", "p", "l", "i", "c", "a", "t", "i", "o", "n", "/", "j", "s", "o", "n", "\"">>)
               = <<<<"-", "H">>, <<"C", "o", "n", "t", "e", "n", "t", "-", "T", "y", "p", "e", ":", " ", "a", "p", "p", "l", "i", "c", "a", "t", "i", "o", "n", "/", "j", "s", "o", "n">>>>
        /\ tokenize(<<"'", "{", "\"", "a", "\"", ":", "1", "}", "'">>) = <<<<"{", "\"", "a", "\"", ":", "1", "}">>>>

\* a double-quoted region holding a space and a single quote came out as
\* one token with both inside
QuotingWitness ==
    /\ out # NotRun
    /\ cmd = <<"\"", "a", " ", "'", "a", "\"">>
    /\ out.tokens = <<<<"a", " ", "'", "a">>>>

\* positions of the items of a kind in the command
ItemsOf(kind) == {i \in 1 .. Len(cmd.items) : cmd.items[i].kind = kind}

\* every item of the command is complete: no value flag without its value, no
\* open quote, no trailing backslash
Complete == ItemsOf("dangling") \cup ItemsOf("open") \cup ItemsOf("backslash") = {}

\* C14: a data flag with a value and no -X/--request gives method POST; one
\* explicit -X/--request M together with a data flag gives M, in either
\* order, also for M = GET.
MethodPromotion ==
    (out # NotRun /\ Complete /\ ItemsOf("data") # {}) =>
        /\ ItemsOf("method") = {} => out.result.method = <<"P", "O", "S", "T">>
        /\ \A m \in ItemsOf("method") :
              ItemsOf("method") = {m} => out.result.method = cmd.items[m].a

\* C15: the value of -u/--user is split at its first ':': the username is
\* the text before it and the password all the text after it, further ':'
\* included; a value without ':' leaves auth absent.
AuthSplit ==
    (out # NotRun /\ Complete) =>
        \A u \in ItemsOf("user") :
            ItemsOf("user") = {u} =>
                out.result.auth = IF cmd.items[u].ok
                                  THEN <<cmd.items[u].a, cmd.items[u].b>>
                                  ELSE <<>>

\* the tokens of the command that are one of the given flags
HasFlag(flags) == \E i \in 1 .. Len(out.tokens) : out.tokens[i] \in flags

\* C17: parse returns a structure for every command, among them the empty
\* one, one with an open quote, one ending in a backslash and one ending in
\* a value flag without value; what no token sets stays at its default
\* (method GET, headers empty, url empty); and fromCurl fails for a missing
\* URL exactly when the parsed url is empty.
ParseTotal ==
    out # NotRun =>
        /\ DOMAIN out.result = {"url", "method", "headers", "body", "auth"}
        /\ ~HasFlag(RequestFlags \cup DataFlags) => out.result.method = <<"G", "E", "T">>
        /\ ~HasFlag(HeaderFlags \cup UserAgentFlags \cup RefererFlags
                        \cup CookieFlags \cup {<<"-", "-", "c", "o", "m", "p", "r", "e", "s", "s", "e", "d">>})
              => out.result.headers = NoHeaders
        /\ (~HasFlag(UrlFlags) /\ \A i \in 1 .. Len(out.tokens) : ~isUrl(out.tokens[i]))
              => out.result.url = <<>>
        /\ (ItemsOf("dangling") = {Len(cmd.items)} /\ Len(cmd.items) = 1)
              => out.result = EmptyResult
        /\ out.fromCurl = "No URL found in curl command" <=> out.result.url = <<>>

\* a command with an open quote that ends in a value flag without value was
\* parsed to the defaults, and fromCurl refused it
ParseTotalWitness ==
    /\ out # NotRun
    /\ ItemsOf("open") # {}
    /\ Len(cmd.items) \in ItemsOf("dangling")
    /\ out.result = EmptyResult
    /\ out.fromCurl = "No URL found in curl command"

\* C18: the value of -H/--header is split at its first ':' into a key and
\* the rest; headers[trim(key)] = trim(rest), further ':' kept; a value
\* whose key or rest is empty or only whitespace sets no header; and the
\* value token is consumed either way, so it is never taken for the url.
HeaderSplit ==
    (out # NotRun /\ Complete) =>
        \A h \in ItemsOf("header") :
            ItemsOf("header") = {h} =>
                /\ out.result.headers =
                       IF cmd.items[h].ok
                       THEN SetHeader(NoHeaders, cmd.items[h].a, cmd.items[h].b)
                       ELSE NoHeaders
                /\ Len(cmd.items) = 1 => out.result.url = <<>>

\* the first word of the command that looks like a URL, <<>> when none does
FirstUrlWord ==
    LET urls == {i \in ItemsOf("word") : cmd.items[i].ok}
    IN IF urls = {} THEN <<>>
       ELSE cmd.items[CHOOSE i \in urls : \A j \in urls : i <= j].a

\* C19: without --url the parsed url is the first URL-like token that is
\* neither a flag nor a flag's value, and a later one never replaces it; the
\* value of --url is the url whether a positional URL-like token stands
\* before it or after it.
UrlSelection ==
    (out # NotRun /\ Complete) =>
        /\ ItemsOf("url") = {} => out.result.url = FirstUrlWord
        /\ \A u \in ItemsOf("url") :
              ItemsOf("url") = {u} => out.result.url = cmd.items[u].a

\* a positional URL came first and a --url value after it took its place
UrlSelectionWitness ==
    /\ out # NotRun
    /\ Len(cmd.items) = 2
    /\ cmd.items[1].kind = "word" /\ cmd.items[1].ok
    /\ cmd.items[2].kind = "url"
    /\ out.result.url = cmd.items[2].a
    /\ out.result.url # cmd.items[1].a

\* C20: a command in which one space between two tokens is replaced by a
\* backslash-newline or by a run of whitespace, and which has whitespace
\* before and after it, parses to the same result as its one-line form.
Normalization == out # NotRun => out.varied = out.plain

\* C21: for the exponential strategy, with d = min(baseDelay * 2^(n-1),
\* maxDelay), the delay v returned for attempt n is a number with
\* d - d/4 <= v <= min(d + d/4, maxDelay).
ExponentialBackoff ==
    (out # NotRun /\ cmd.strategy # "linear") =>
        LET d == MinPow(cmd.baseDelay, cmd.attempt - 1, cmd.maxDelay)
        IN /\ ~out.delay.nan
           /\ 3 * d * Unit <= 4 * out.delay.v
           /\ 4 * out.delay.v <= 5 * d * Unit
           /\ out.delay.v <= cmd.maxDelay * Unit

\* C22: for the linear strategy the delay is baseDelay * n clamped to
\* [0, maxDelay], whatever Math.random() returns; and for every strategy the
\* delay is a number in [0, maxDelay].
LinearBackoff ==
    out # NotRun =>
        /\ cmd.strategy = "linear" =>
              out.delay = Number(Min(cmd.baseDelay * cmd.attempt, cmd.maxDelay) * Unit)
        /\ ~out.delay.nan
        /\ 0 <= out.delay.v /\ out.delay.v <= cmd.maxDelay * Unit

\* attempt i of r was followed by a retry: the call sleeps after it or has
\* gone on to a later attempt
Retried(r, i) == (r.attempt = i /\ r.pc = "sleep") \/ r.attempt > i

\* C23: with a retry policy of count >= 1 and no statusCodes, a response
\* that performRequest returned and whose status is in the documented
\* default list, on an attempt before the last, is retried.
DefaultRetryStatuses ==
    \A c \in Calls :
        LET r == call[c]
        IN \A i \in 1 .. Len(r.outcomes) :
              (/\ r.cfg.count >= 1 /\ ~r.cfg.hasCodes
               /\ Returned(r, i)
               /\ r.outcomes[i].status \in DefaultStatusCodes
               /\ i < r.maxAttempts)
              => Retried(r, i)

\* C24: within one call at most one transport call is in flight at any
\* time, also when an attempt ended by its timeout and a retry follows.
AttemptsSequential == \A c \in Calls : Cardinality(call[c].inflight) <= 1

\* C25: once the signal of a call that has made an attempt has fired, the
\* call makes no further call of fetch.
CancelStopsAttempts ==
    [][\A c \in Calls :
          (call[c].aborted /\ call[c].fetches >= 1)
              => call'[c].fetches = call[c].fetches]_vars

\* C26: for a call with a timeout whose signal fired while an attempt was
\* pending (before the timer and before the transport completed), no timer
\* the call created is still armed once the call has settled.
NoTimerLeak ==
    \A c \in Calls :
        (call[c].pc = "done" /\ call[c].cfg.timeout /\ call[c].abortAttempt >= 1)
            => call[c].timers = {}

\* C27: an attempt whose timer fires before the transport completes fails
\* with a timeout error; before the last attempt it is retried after the
\* backoff sleep, on the last attempt it is the error the call rejects with
\* (the callback onRetry not raising); and a call rejected with a timeout
\* error had the timer of that attempt win its race.
TimeoutRetryable ==
    \A c \in Calls :
        LET r == call[c]
        IN /\ \A i \in 1 .. Len(r.outcomes) :
                 (r.outcomes[i].kind = "timeout" /\ r.cfg.onRetry # "throw") =>
                     IF i < r.maxAttempts
                     THEN Retried(r, i) /\ r.sleeps >= i
                     ELSE /\ r.pc = "done" /\ r.outcome = "rejected"
                          /\ r.error = Err("timeout", i)
           /\ r.error.kind = "timeout" =>
                 /\ r.error.n \in 1 .. Len(r.outcomes)
                 /\ r.outcomes[r.error.n].kind = "timeout"
           /\ r.lastError.kind = "timeout" =>
                 r.outcomes[r.lastError.n].kind = "timeout"

\* a call with two attempts: the first timed out and was retried, the second
\* timed out and its timeout error is the outcome of the call
TimeoutRetryableWitness ==
    /\ call[1].pc = "done" /\ call[1].outcome = "rejected"
    /\ call[1].cfg.count = 1
    /\ Len(call[1].outcomes) = 2
    /\ call[1].outcomes[1].kind = "timeout" /\ call[1].outcomes[2].kind = "timeout"
    /\ call[1].sleeps = 1
    /\ call[1].error = Err("timeout", 2)

\* attempt k of r ended in a response that the retry test accepts
RetryableResponse(r, k) ==
    /\ Returned(r, k)
    /\ r.cfg.hasCodes /\ r.outcomes[k].status \in RetryCodes

\* C28: with an onRetry that returns, every attempt k < maxAttempts that
\* ends in a transport failure (of the transport call or of the read of the
\* body it answered) or a retryable status is followed by one call
\* onRetry(k, error of attempt k), the error of a retryable status being the
\* synthesized HTTP error; the call comes before the backoff sleep, attempt
\* k + 1 starts after that sleep, the last attempt has no onRetry, and a
\* settled call with m attempts made m - 1 calls of onRetry.
OnRetryProtocol ==
    \A c \in Calls :
        LET r == call[c]
        IN r.cfg.onRetry = "ok" =>
              /\ Len(r.retries) = r.sleeps
              /\ \A k \in 1 .. Len(r.retries) :
                    /\ r.retries[k].attempt = k
                    /\ k < r.maxAttempts /\ k <= Len(r.outcomes)
                    /\ r.outcomes[k].kind \in FailureKinds
                          => r.retries[k].error = ErrorOf(r, k)
                    /\ RetryableResponse(r, k)
                          => r.retries[k].error = Err("http", r.outcomes[k].status)
                    /\ BodyFailed(r, k)
                          => r.retries[k].error \in
                                {Err("read", k), Err("syntax", k), Err("abort", k)}
              /\ \A k \in 1 .. Len(r.outcomes) :
                    (k < r.maxAttempts
                       /\ (\/ r.outcomes[k].kind \in FailureKinds
                           \/ RetryableResponse(r, k)
                           \/ BodyFailed(r, k)))
                    => Len(r.retries) >= k
              /\ r.fetches <= r.sleeps + 1
              /\ r.pc = "sleep" => r.fetches = r.sleeps
              /\ (r.pc = "done" /\ r.fetches >= 1) => Len(r.retries) = r.fetches - 1

\* three attempts: a retryable status, then a network failure, then the
\* last attempt; onRetry was called for the first two, with their errors
OnRetryProtocolWitness ==
    /\ call[1].pc = "done" /\ call[1].cfg.onRetry = "ok"
    /\ call[1].fetches = 3
    /\ call[1].outcomes[1].kind = "response" /\ call[1].outcomes[2].kind = "transport"
    /\ call[1].retries = <<[attempt |-> 1, error |-> Err("http", 503)],
                           [attempt |-> 2, error |-> Err("transport", 2)]>>

\* C29: a response is answered by a retry only on an attempt before the
\* last, with statusCodes configured and containing its status; with
\* count >= 1 and no statusCodes the response of the first attempt, whatever
\* its status, is final and the call returns it after that one attempt (the
\* response interceptors not raising; a response is one performRequest
\* returned, its body read where it has one).
StatusRetryNeedsList ==
    \A c \in Calls :
        LET r == call[c]
        IN NoneRaises(heap[response]) =>
              /\ \A i \in 1 .. Len(r.outcomes) :
                    (Returned(r, i) /\ Retried(r, i)) =>
                        /\ i < r.maxAttempts
                        /\ r.cfg.hasCodes
                        /\ r.outcomes[i].status \in RetryCodes
              /\ (/\ r.cfg.count >= 1 /\ ~r.cfg.hasCodes
                  /\ Len(r.outcomes) >= 1 /\ (Returned(r, 1) \/ Reading(r, 1)))
                 => /\ r.fetches = 1
                    /\ r.pc \in {"body", "resp_await", "done"}
                    /\ r.pc = "done" =>
                          /\ r.outcome = "resolved"
                          /\ r.result.attempt = 1
                          /\ r.result.status = r.outcomes[1].status

\* retries were allowed but no statusCodes set: the 503 of the first
\* attempt went through a response interceptor and was returned
StatusRetryNeedsListWitness ==
    /\ call[1].pc = "done" /\ call[1].outcome = "resolved"
    /\ call[1].cfg.count >= 1 /\ ~call[1].cfg.hasCodes
    /\ call[1].fetches = 1
    /\ call[1].result.status = 503
    /\ call[1].result.trace # <<>>

\* C30: the request chain runs once per call, before the first attempt, and
\* never again; the response chain runs at most once, on the response of the
\* final attempt only, so the response a resolved call returns is the one
\* that went through it and a response answered by a retry never entered it.
ChainsRunOnce ==
    \A c \in Calls :
        LET r == call[c]
        IN /\ r.fetches >= 1 => r.pc # "req_await"
           /\ Len(r.reqLog) <= Len(heap[request])
           /\ Len(r.respRuns) <= 1
           /\ \A i \in 1 .. Len(r.respRuns) : ~Retried(r, r.respRuns[i])
           /\ (r.pc = "done" /\ r.outcome = "resolved") =>
                 r.respRuns = <<r.result.attempt>>

\* C31: the data of a response is chosen in this order: streaming gives the
\* raw response with the body unread; else status 204 or method HEAD gives
\* absent data; else a JSON content type (parameters and case ignored) gives
\* the decoded text, absent for an empty text, without raising; else the
\* body text (the read of the body succeeding; the first two cases do not
\* read it).
BodyMaterialization ==
    /\ out = TextPending =>
          ~cmd.streaming /\ cmd.status # NoContent /\ cmd.method # "HEAD"
    /\ out.done =>
          IF cmd.streaming THEN out.data.kind = "raw" /\ ~out.data.read
          ELSE IF cmd.status = NoContent \/ cmd.method = "HEAD"
               THEN out.data.kind = "absent" /\ ~out.data.read
          ELSE IF out.data.kind = "reject" THEN out.data.read
          ELSE IF cmd.type.json
               THEN IF cmd.body.text = <<>> THEN out.data.kind = "absent"
                    ELSE IF cmd.body.valid
                         THEN out.data.kind = "json" /\ out.data.value = cmd.body.value
                         ELSE out.data.kind = "raise"
          ELSE out.data.kind = "text" /\ out.data.text = cmd.body.text
\* a JSON media type in capitals and with a charset parameter was decoded
BodyMaterializationWitness ==
    /\ out.done /\ ~cmd.streaming /\ cmd.status = 200 /\ cmd.method = "POST"
    /\ \E i \in 1 .. Len(cmd.type.text) : cmd.type.text[i] = ";"
    /\ cmd.type.text[1] = "A"
    /\ out.data.kind = "json" /\ out.data.value.t = "string"

\* C32: timing.total of the response a call resolves with runs from the
\* instant the call began, before its first request interceptor, to the
\* completion of the winning attempt's transport call, so it covers the
\* request interceptors, every earlier attempt and every backoff sleep.
TimingInterval ==
    \A c \in Calls :
        LET r == call[c]
        IN (r.pc = "done" /\ r.outcome = "resolved") =>
              /\ r.total = r.endTime
              /\ r.total >= Len(r.reqLog) + r.fetches + r.sleeps

\* the pieces of a command when a backslash makes the next character a
\* literal one: q is the open quote, "" outside quotes
RECURSIVE EscapedPieces(_, _)
EscapedPieces(s, q) ==
    IF s = <<>> THEN <<>>
    ELSE IF s[1] = "\\"
         THEN IF Len(s) = 1 THEN <<>>
              ELSE <<[gap |-> FALSE, lit |-> <<s[2]>>]>>
                       \o EscapedPieces(SubSeq(s, 3, Len(s)), q)
    ELSE IF q = ""
         THEN IF s[1] \in {"\"", "'"} THEN EscapedPieces(Tail(s), s[1])
              ELSE IF s[1] = " "
                   THEN <<[gap |-> TRUE, lit |-> <<>>]>> \o EscapedPieces(Tail(s), q)
              ELSE <<[gap |-> FALSE, lit |-> <<s[1]>>]>> \o EscapedPieces(Tail(s), q)
    ELSE IF s[1] = q THEN EscapedPieces(Tail(s), "")
    ELSE <<[gap |-> FALSE, lit |-> <<s[1]>>]>> \o EscapedPieces(Tail(s), q)

\* C33: a backslash, inside or outside quotes, is dropped and the character
\* after it joins the current token as a literal: an escaped space does not
\* end the token, an escaped quote opens and closes nothing, an escaped
\* backslash gives one backslash.
EscapeHandling ==
    out # NotRun =>
        /\ out.tokens = WordsOf(EscapedPieces(cmd, ""), <<>>)
        /\ tokenize(<<"a", "\\", " ", "b">>) = <<<<"a", " ", "b">>>>
        /\ tokenize(<<"\\", "\"", "a", " ", "b">>) = <<<<"\"", "a">>, <<"b">>>>
        /\ tokenize(<<"'", "a", "\\", "'", "b", " ", "c", "'">>) = <<<<"a", "'", "b", " ", "c">>>>
        /\ tokenize(<<"\"", "a", "\\", "\\", "\"">>) = <<<<"a", "\\">>>>
        /\ tokenize(<<"\\", "\\", "\\", "\\">>) = <<<<"\\", "\\">>>>

\* an escaped quote inside a quoted region stayed in the token and did not
\* close the region
EscapeHandlingWitness ==
    /\ out # NotRun
    /\ cmd = <<"'", "\\", "'", " ", "a", "'">>
    /\ out.tokens = <<<<"'", " ", "a">>>>

\* C34: the body of a command given to fromCurl becomes a JSON body when it
\* parses as JSON; else a form body of its URL-decoded pairs when the headers
\* declare form-url-encoding; else it stays on the request as raw text; a
\* body that is present is never dropped.
BodyTranslation ==
    (out # NotRun /\ out.fromCurl = "builder" /\ cmd.body.body # <<>>) =>
        /\ out.body.kind # "none"
        /\ IF cmd.body.json.t # "none"
           THEN out.body.kind = "json" /\ out.body.value = cmd.body.json
           ELSE IF cmd.headers.form
                THEN IF cmd.body.bad THEN out.body.kind = "raise"
                     ELSE out.body.kind = "form" /\ out.body.form = cmd.body.form
           ELSE out.body.kind = "raw" /\ out.body.text = cmd.body.body

\* the use calls on chain ch that returned id
UsesGiven(ch, id) == {k \in 1 .. Len(issued[ch]) : issued[ch][k] = id}

\* C35: an eject with an id that use has returned replaces only the handler
\* of the use call that returned it: whenever an eject replaces a handler,
\* every use call of that chain that returned the id is the one that
\* registered the handler, so that id was returned once.
EjectOwnHandler ==
    [][\A id \in EjectIds :
          /\ (Replaced(heap[request], id) # {}
                /\ ejected' \ ejected = Replaced(heap[request], id))
             => Cardinality(UsesGiven("request", id)) = 1
          /\ (Replaced(heap[response], id) # {}
                /\ ejected' \ ejected = Replaced(heap[response], id))
             => Cardinality(UsesGiven("response", id)) = 1]_vars

\* the handlers the request chain of a call has invoked
AppliedTo(r) == {r.reqLog[i].h.uid : i \in 1 .. Len(r.reqLog)}

\* C36: the request interceptors applied to a call are those registered when
\* it began iterating the chain: a handler registered once the call has begun
\* (while it is suspended in an earlier interceptor) is never applied to it,
\* and a clear() does not keep the call from running every handler of the
\* list it was iterating.
HandlerSetFixed ==
    /\ [][\A c \in Calls :
            (call[c].pc \in {"idle", "req_await"}
               /\ call'[c].pc \notin {"idle", "req_await", "done"})
            => AppliedTo(call'[c]) =
                  {h.uid : h \in Range(heap[call'[c].reqIt.arr])}]_vars
    /\ \A c \in Calls : \A u \in 1 .. MaxUse :
          []((call[c].pc # "idle" /\ nextUid <= u) => [](u \notin AppliedTo(call[c])))

\* C37: an onRetry callback that raises ends the call, after a transport
\* failure as after a retryable status: the call is rejected with the
\* callback's error, onRetry was invoked once, and no transport attempt
\* follows the one that was to be retried.
OnRetryRaiseEnds ==
    \A c \in Calls :
        LET r == call[c]
        IN (r.cfg.onRetry = "throw" /\ Len(r.retries) >= 1) =>
              /\ r.pc = "done" /\ r.outcome = "rejected"
              /\ r.error = Err("onRetry", r.retries[1].attempt)
              /\ Len(r.retries) = 1
              /\ r.fetches = r.retries[1].attempt

\* C38: for a call with a timeout, the timer of an attempt whose transport
\* call completed (with a response or a failure) before the timer fired is
\* cancelled, and once the call has settled no timer it created is armed.
NoTimerOutlives ==
    \A c \in Calls :
        LET r == call[c]
        IN r.cfg.timeout =>
              /\ \A k \in 1 .. Len(r.outcomes) :
                    r.outcomes[k].kind \in {"response", "transport"} => k \notin r.timers
              /\ r.pc = "done" => r.timers = {}

\* C39: the characters between a pair of matching quotes reach the token
\* unchanged: a quoted -d value is the parsed body and a quoted -H value the
\* parsed header value, with the spaces, tabs and newlines it was typed with.
QuotedVerbatim ==
    out # NotRun =>
        IF cmd.flag = "data"
        THEN out.result.body = QuotedValue(cmd.inner)
        ELSE /\ DOMAIN out.result.headers = {<<"k">>}
             /\ out.result.headers[<<"k">>] = QuotedValue(cmd.inner)

\* the positions of the tokens t, from i on, that are interpreted: the token
\* after a value-consuming flag is its value and is passed over
RECURSIVE InterpretedFrom(_, _)
InterpretedFrom(t, i) ==
    IF i > Len(t) THEN {}
    ELSE {i} \cup InterpretedFrom(t, IF t[i] \in ValueFlags /\ i < Len(t)
                                     THEN i + 2 ELSE i + 1)

\* the interpreted positions of t that hold one of flags and have a value
ValuedAt(t, flags) == {i \in InterpretedFrom(t, 1) : t[i] \in flags /\ i < Len(t)}

\* C40: a value-consuming flag takes the next token as its value whatever
\* its shape, and that token is not read again as a flag or a url; a
\* value-consuming flag that is the last token is ignored; boolean and
\* unknown flags consume nothing, so the token after them is interpreted.
ValueConsumption ==
    out # NotRun =>
        LET t == out.tokens
            I == InterpretedFrom(t, 1)
            data == ValuedAt(t, DataFlags)
        IN /\ \/ out.result.url = <<>>
              \/ \E i \in I : Head(t[i]) # "-" /\ isUrl(t[i]) /\ out.result.url = t[i]
              \/ \E i \in ValuedAt(t, UrlFlags) : out.result.url = t[i + 1]
           /\ \/ out.result.method \in {<<"G", "E", "T">>, <<"P", "O", "S", "T">>}
              \/ \E i \in ValuedAt(t, RequestFlags) :
                    out.result.method = ToUpperCase(t[i + 1])
           /\ out.result.body =
                 IF data = {} THEN <<>>
                 ELSE t[(CHOOSE i \in data : \A j \in data : j <= i) + 1]
           /\ ValuedAt(t, RequestFlags) = {} /\ data = {} => out.result.method = <<"G", "E", "T">>
           /\ parseCurlCommand(<<"-", "X", " ", "h", "t", "t", "p", "s", ":", "/", "/", "x">>).url = <<>>
           /\ parseCurlCommand(<<"-", "X", " ", "h", "t", "t", "p", "s", ":", "/", "/", "x">>).method = <<"H", "T", "T", "P", "S", ":", "/", "/", "X">>
           /\ parseCurlCommand(<<"-", "d", " ", "-", "L", " ", "w", "w", "w", ".", "b">>).body = <<"-", "L">>
           /\ parseCurlCommand(<<"-", "d", " ", "-", "L", " ", "w", "w", "w", ".", "b">>).url = <<"w", "w", "w", ".", "b">>
           /\ parseCurlCommand(<<"-", "A", " ", "-", "H", " ", "w", "w", "w", ".", "b">>).headers = SetHeader(NoHeaders, <<"U", "s", "e", "r", "-", "A", "g", "e", "n", "t">>, <<"-", "H">>)
           /\ parseCurlCommand(<<"-", "A", " ", "-", "H", " ", "w", "w", "w", ".", "b">>).url = <<"w", "w", "w", ".", "b">>
           /\ parseCurlCommand(<<"-", "e", " ", "w", "w", "w", ".", "b", " ", "-", "b", " ", "-", "-", "u", "r", "l">>).headers
                 = SetHeader(SetHeader(NoHeaders, <<"R", "e", "f", "e", "r", "e", "r">>, <<"w", "w", "w", ".", "b">>), <<"C", "o", "o", "k", "i", "e">>, <<"-", "-", "u", "r", "l">>)
           /\ parseCurlCommand(<<"-", "e", " ", "w", "w", "w", ".", "b", " ", "-", "b", " ", "-", "-", "u", "r", "l">>).url = <<>>
           /\ parseCurlCommand(<<"-", "u", " ", "-", "X", " ", "w", "w", "w", ".", "b">>).method = <<"G", "E", "T">>
           /\ parseCurlCommand(<<"-", "-", "f", "o", "o", " ", "w", "w", "w", ".", "b">>).url = <<"w", "w", "w", ".", "b">>
           /\ parseCurlCommand(<<"-", "k", " ", "w", "w", "w", ".", "b", " ", "-", "d">>).url = <<"w", "w", "w", ".", "b">>
           /\ parseCurlCommand(<<"-", "k", " ", "w", "w", "w", ".", "b", " ", "-", "d">>).body = <<>>
           /\ parseCurlCommand(<<"-", "k", " ", "w", "w", "w", ".", "b", " ", "-", "d">>).method = <<"G", "E", "T">>

\* -X took a URL-like token as its value: it is the method, and no url was
\* recorded
ValueConsumptionWitness ==
    /\ out # NotRun
    /\ out.tokens = <<<<"-", "X">>, <<"h", "t", "t", "p", ":", "/", "/", "a">>>>
    /\ out.result.method = <<"H", "T", "T", "P", ":", "/", "/", "A">>
    /\ out.result.url = <<>>

====
